---- MODULE Spec2Model ----
(***************************************************************************)
(* Model of the csharg live-capture relay: the pcapng StreamEditor, the    *)
(* graceful websocket closer (ReadingClientWebsocket) and the capture      *)
(* streamer (StartCaptureStream, Stop, Wait, StopAfter).                   *)
(*                                                                         *)
(* Octet strings are sequences of integers 0..255.  Go slices s[lo:hi] are *)
(* 0-based and half open; TLA+ sequences are 1-based.                      *)
(***************************************************************************)
EXTENDS Integers, Sequences, FiniteSets, TLC

\* ------------------------------------------------------------------------
\* Bounds of the model
\* ------------------------------------------------------------------------
\* spare capacity a reallocation of the SHB buffer may leave behind its length
MaxSlack == 12
\* number of data/text frames the peer sends in one session
MaxFrames == 2
\* number of frames in flight from the peer to the client
MaxWire == 1
\* number of Stop/Wait/StopAfter calls one calling thread makes
MaxCalls == 1

\* ------------------------------------------------------------------------
\* Octet helpers
\* ------------------------------------------------------------------------
GoSlice(s, lo, hi) == SubSeq(s, lo + 1, hi)

Zeros(n) == [i \in 1..n |-> 0]

\* s[lo:hi] of a slice whose backing array is zero between len(s) and cap(s)
ZeroFilled(s, lo, hi) ==
    IF hi <= Len(s) THEN GoSlice(s, lo, hi)
    ELSE IF lo >= Len(s) THEN Zeros(hi - lo)
    ELSE GoSlice(s, lo, Len(s)) \o Zeros(hi - Len(s))

\* binary.ByteOrder: Uint16, Uint32, PutUint16, PutUint32
Uint16(endian, b) ==
    IF endian = "big" THEN b[1] * 256 + b[2] ELSE b[2] * 256 + b[1]

Uint32(endian, b) ==
    IF endian = "big"
    THEN ((b[1] * 256 + b[2]) * 256 + b[3]) * 256 + b[4]
    ELSE ((b[4] * 256 + b[3]) * 256 + b[2]) * 256 + b[1]

PutUint16(endian, v) ==
    IF endian = "big" THEN << (v \div 256) % 256, v % 256 >>
    ELSE << v % 256, (v \div 256) % 256 >>

PutUint32(endian, v) ==
    IF endian = "big"
    THEN << (v \div 16777216) % 256, (v \div 65536) % 256, (v \div 256) % 256, v % 256 >>
    ELSE << v % 256, (v \div 256) % 256, (v \div 65536) % 256, (v \div 16777216) % 256 >>

\* ------------------------------------------------------------------------
\* pcapng constants
\* ------------------------------------------------------------------------
OptEndofOpt == 0
OptComment == 1
SHBMagic == <<10, 13, 13, 10>>
BOMBig == <<26, 43, 60, 77>>
BOMLittle == <<77, 60, 43, 26>>
AllOnes8 == <<255, 255, 255, 255, 255, 255, 255, 255>>

\* "---\n# capture target information\n"
targetmarker ==
    <<45, 45, 45, 10, 35, 32, 99, 97, 112, 116, 117, 114, 101, 32, 116, 97,
      114, 103, 101, 116, 32, 105, 110, 102, 111, 114, 109, 97, 116, 105,
      111, 110, 10>>

\* does pattern p occur in s at 0-based index i ?
MatchAt(s, p, i) ==
    /\ i >= 0
    /\ i + Len(p) <= Len(s)
    /\ \A k \in 1..Len(p) : s[i + k] = p[k]

\* the least element of a non-empty set of indices
LeftMost(hits) == CHOOSE h \in hits : \A g \in hits : h <= g

\* the match of markerstart that begins at index i
StartMatch(s, i) ==
    IF i = 0 /\ MatchAt(s, targetmarker, 0)
    THEN <<0, Len(targetmarker)>>
    ELSE <<i, i + 1 + Len(targetmarker)>>

StartHits(s) ==
    { i \in 0..Len(s) :
        \/ i = 0 /\ MatchAt(s, targetmarker, 0)
        \/ i < Len(s) /\ s[i + 1] = 10 /\ MatchAt(s, targetmarker, i + 1) }

\* markerstart = (?s)(^|\n)targetmarker : leftmost match as [start, end), or << >>
markerstart(s) ==
    IF StartHits(s) = {} THEN << >> ELSE StartMatch(s, LeftMost(StartHits(s)))

\* the match of markerend that begins at index i
EndMatch(s, i) == <<i, IF i + 4 = Len(s) THEN i + 4 ELSE i + 5>>

EndHits(s) ==
    { i \in 0..Len(s) :
        /\ MatchAt(s, <<10, 45, 45, 45>>, i)
        /\ \/ i + 4 = Len(s)
           \/ i + 4 < Len(s) /\ s[i + 5] = 10 }

\* markerend = (?s)\n---($|\n) : leftmost match as [start, end), or << >>
markerend(s) ==
    IF EndHits(s) = {} THEN << >> ELSE EndMatch(s, LeftMost(EndHits(s)))

\* ------------------------------------------------------------------------
\* Option encoding and decoding
\* ------------------------------------------------------------------------
NoOption == [Code |-> -1, Value |-> << >>]

\* the octets to skip over an option with the given length field
Skip(length) ==
    IF (4 + length) % 4 # 0 THEN (4 + length) + (4 - ((4 + length) % 4)) ELSE 4 + length

\* NewOption once code and length are read: buff[4 : 4+length] is computed in
\* 16 bits and need not lie in the buffer
DecodeOption(buff, bcap, code, length) ==
    IF code # OptEndofOpt \/ length # 0
    THEN IF (4 + length) % 65536 < 4 \/ (4 + length) % 65536 > bcap
         THEN [panic |-> TRUE, opt |-> NoOption, skip |-> Skip(length)]
         ELSE [panic |-> FALSE,
               opt |-> [Code |-> code, Value |-> ZeroFilled(buff, 4, (4 + length) % 65536)],
               skip |-> Skip(length)]
    ELSE [panic |-> FALSE, opt |-> NoOption, skip |-> Skip(length)]

\* NewOption(buff, endian) where buff has capacity bcap; a slice expression
\* out of range is a runtime panic.
NewOption(buff, bcap, endian) ==
    IF Len(buff) < 2 \/ bcap < 4
    THEN [panic |-> TRUE, opt |-> NoOption, skip |-> 0]
    ELSE DecodeOption(buff, bcap, Uint16(endian, ZeroFilled(buff, 0, 2)),
                      Uint16(endian, ZeroFilled(buff, 2, 4)))

\* the octets of an option without the padding to the next 32-bit boundary
OptionOctetsNoPadding(o, endian, length, bylen) ==
    PutUint16(endian, o.Code) \o PutUint16(endian, length)
        \o (IF Len(o.Value) < bylen - 4
            THEN o.Value \o Zeros(bylen - 4 - Len(o.Value))
            ELSE SubSeq(o.Value, 1, bylen - 4))

\* the octets of an option whose 16-bit length field is length and whose
\* buffer has bylen octets
OptionOctets(o, endian, length, bylen) ==
    PutUint16(endian, o.Code) \o PutUint16(endian, length)
        \o (IF Len(o.Value) < bylen - 4
            THEN o.Value \o Zeros(bylen - 4 - Len(o.Value))
            ELSE SubSeq(o.Value, 1, bylen - 4))
        \o (IF length % 4 # 0 THEN Zeros(4 - (length % 4)) ELSE << >>)

\* Option.Bytes(endian); the length arithmetic is 16 bits wide.
OptionBytes(o, endian) ==
    IF (4 + (Len(o.Value) % 65536)) % 65536 < 4
    THEN [panic |-> TRUE, bytes |-> << >>]
    ELSE [panic |-> FALSE,
          bytes |-> OptionOctets(o, endian, Len(o.Value) % 65536,
                                 (4 + (Len(o.Value) % 65536)) % 65536)]

\* ------------------------------------------------------------------------
\* Capture target meta data
\* ------------------------------------------------------------------------
\* yaml.Marshal of a string scalar, for the strings of this model: the empty
\* string is written as "", every other one plain.
YamlStr(v) == IF v = << >> THEN <<34, 34>> ELSE v

\* yaml.Marshal(ContainerInfo{...}); Cluster is << >> for a nil cluster.
ContainerInfo(container, captureFilter, noProm) ==
    <<99, 111, 110, 116, 97, 105, 110, 101, 114, 45, 110, 97, 109, 101, 58, 32>>
        \o YamlStr(container.Name) \o <<10>>
    \o <<99, 111, 110, 116, 97, 105, 110, 101, 114, 45, 116, 121, 112, 101, 58, 32>>
        \o YamlStr(container.Type) \o <<10>>
    \o <<110, 111, 100, 101, 45, 110, 97, 109, 101, 58, 32>>
        \o YamlStr(container.NodeName) \o <<10>>
    \o (IF container.Cluster # << >>
        THEN <<99, 108, 117, 115, 116, 101, 114, 58, 10, 32, 32, 32, 32, 117, 105, 100, 58, 32>>
             \o container.Cluster \o <<10>>
        ELSE << >>)
    \o (IF captureFilter # << >>
        THEN <<99, 97, 112, 116, 117, 114, 101, 45, 102, 105, 108, 116, 101, 114, 58, 32>>
             \o captureFilter \o <<10>>
        ELSE << >>)
    \o (IF noProm
        THEN <<110, 111, 45, 112, 114, 111, 109, 105, 115, 99, 117, 111, 117, 115, 45,
               109, 111, 100, 101, 58, 32, 116, 114, 117, 101, 10>>
        ELSE << >>)

\* ------------------------------------------------------------------------
\* StreamEditor
\* ------------------------------------------------------------------------
\* NewStreamEditor(sink, container, captureFilter, noProm)
NewStreamEditor(container, captureFilter, noProm) ==
    [Endian |-> "nil", passThrough |-> FALSE, shb |-> << >>, cap |-> 0,
     shbLen |-> 0, container |-> container, captureFilter |-> captureFilter,
     noProm |-> noProm]

\* offset < pe.shbLen-4 in 32-bit unsigned arithmetic: below 4 the
\* subtraction wraps to a value above every offset the buffer can hold
LoopCond(offset, shbLen) ==
    IF shbLen < 4 THEN TRUE ELSE offset < shbLen - 4

RECURSIVE ParseOptions(_, _, _, _)

\* the body of the option loop of processSHB, with the option r read at offset
ParseNext(pe, offset, options, firstComment, r) ==
    IF r.panic
    THEN [panic |-> TRUE, options |-> options, firstComment |-> firstComment]
    ELSE IF r.opt = NoOption
    THEN [panic |-> FALSE, options |-> options, firstComment |-> firstComment]
    ELSE IF r.opt.Code = OptComment /\ firstComment = NoOption
    THEN ParseOptions(pe, offset + r.skip, options, r.opt)
    ELSE ParseOptions(pe, offset + r.skip, Append(options, r.opt), firstComment)

\* the option loop of processSHB, from the given offset on
ParseOptions(pe, offset, options, firstComment) ==
    IF ~LoopCond(offset, pe.shbLen)
    THEN [panic |-> FALSE, options |-> options, firstComment |-> firstComment]
    ELSE IF offset > Len(pe.shb)
    THEN [panic |-> TRUE, options |-> options, firstComment |-> firstComment]
    ELSE ParseNext(pe, offset, options, firstComment,
                   NewOption(GoSlice(pe.shb, offset, Len(pe.shb)), pe.cap - offset,
                             pe.Endian))

\* comment without its target information, which begins at s0 and whose end
\* marker was searched behind the start marker
CutTargetInfo(comment, s0, end) ==
    IF end # << >>
    THEN GoSlice(comment, 0, s0) \o GoSlice(comment, s0 + end[1], Len(comment))
    ELSE GoSlice(comment, 0, s0)

\* the comment without the target information that the match start begins
StripMatch(comment, start) ==
    IF start = << >> THEN comment
    ELSE CutTargetInfo(comment,
                       IF comment[start[1] + 1] = 10 THEN start[1] + 1 ELSE start[1],
                       markerend(GoSlice(comment, start[2], Len(comment))))

\* the comment of the first comment option without its capture target YAML
StripTargetInfo(comment) == StripMatch(comment, markerstart(comment))

\* a line break behind a non-empty comment that does not end in one
WithLineBreak(comment) ==
    IF comment # << >> /\ comment[Len(comment)] # 10 THEN comment \o <<10>> ELSE comment

\* a comment option that gets the target YAML without the marker before it
NewCommentNoMarker(pe, firstComment) ==
    WithLineBreak(IF firstComment # NoOption THEN StripTargetInfo(firstComment.Value)
                  ELSE << >>)
        \o ContainerInfo(pe.container, pe.captureFilter, pe.noProm)

\* the new text of the comment option
NewComment(pe, firstComment) ==
    WithLineBreak(IF firstComment # NoOption THEN StripTargetInfo(firstComment.Value)
                  ELSE << >>)
        \o targetmarker \o ContainerInfo(pe.container, pe.captureFilter, pe.noProm)

\* the octets of an option in front of the octets of the options behind it
JoinOptions(h, t) == [panic |-> h.panic \/ t.panic, bytes |-> h.bytes \o t.bytes]

RECURSIVE EncodeOptions(_, _)
EncodeOptions(options, endian) ==
    IF options = << >> THEN [panic |-> FALSE, bytes |-> << >>]
    ELSE JoinOptions(OptionBytes(Head(options), endian),
                     EncodeOptions(Tail(options), endian))

\* an option list with the comment option behind the other options
NewOptionsCommentLast(pe, parsed) ==
    parsed.options
        \o << [Code |-> OptComment, Value |-> NewComment(pe, parsed.firstComment)] >>

\* the option list processSHB writes into the new block
NewOptions(pe, parsed) ==
    << [Code |-> OptComment, Value |-> NewComment(pe, parsed.firstComment)] >>
        \o parsed.options

\* a new block that the overspill does not follow
NewSHBNoOverspill(pe, shbOpts, shbLen) ==
    PutUint32(pe.Endian, 168627466)
        \o PutUint32(pe.Endian, shbLen)
        \o PutUint32(pe.Endian, 439041101)
        \o PutUint16(pe.Endian, Uint16(pe.Endian, ZeroFilled(pe.shb, 12, 14)))
        \o PutUint16(pe.Endian, Uint16(pe.Endian, ZeroFilled(pe.shb, 14, 16)))
        \o AllOnes8
        \o shbOpts
        \o PutUint32(pe.Endian, shbLen)

\* the new block with the encoded options shbOpts, and the overspill
NewSHB(pe, shbOpts, shbLen) ==
    PutUint32(pe.Endian, 168627466)
        \o PutUint32(pe.Endian, shbLen)
        \o PutUint32(pe.Endian, 439041101)
        \o PutUint16(pe.Endian, Uint16(pe.Endian, ZeroFilled(pe.shb, 12, 14)))
        \o PutUint16(pe.Endian, Uint16(pe.Endian, ZeroFilled(pe.shb, 14, 16)))
        \o AllOnes8
        \o shbOpts
        \o PutUint32(pe.Endian, shbLen)
        \o GoSlice(pe.shb, pe.shbLen, Len(pe.shb))

\* a new block whose length fields leave out the trailing length field
EmitSHBShortLength(pe, enc) ==
    IF enc.panic
    THEN [panic |-> TRUE, out |-> << >>]
    ELSE [panic |-> FALSE,
          out |-> NewSHB(pe, enc.bytes, 4 + 4 + 4 + 2 + 2 + 8 + Len(enc.bytes))]

\* processSHB behind the encoding of the new option list
EmitSHB(pe, enc) ==
    IF enc.panic
    THEN [panic |-> TRUE, out |-> << >>]
    ELSE [panic |-> FALSE,
          out |-> NewSHB(pe, enc.bytes, 4 + 4 + 4 + 2 + 2 + 8 + Len(enc.bytes) + 4)]

\* processSHB behind the option loop
EditSHB(pe, parsed) ==
    IF parsed.panic
    THEN [panic |-> TRUE, out |-> << >>]
    ELSE EmitSHB(pe, EncodeOptions(NewOptions(pe, parsed), pe.Endian))

\* processSHB: the rebuilt block followed by the overspill, or a panic
processSHB(pe) ==
    IF pe.cap < 24
    THEN [panic |-> TRUE, out |-> << >>]
    ELSE EditSHB(pe, ParseOptions(pe, 24, << >>, NoOption))

\* a detection that compares the first three octets of the block type only
shbLenEndiannessLoose(pe) ==
    IF GoSlice(pe.shb, 0, 3) # GoSlice(SHBMagic, 0, 3)
    THEN [ok |-> FALSE, pe |-> pe]
    ELSE LET endian == IF GoSlice(pe.shb, 8, 12) = BOMBig THEN "big" ELSE "little"
         IN  [ok |-> TRUE,
              pe |-> [pe EXCEPT !.Endian = endian,
                                !.shbLen = Uint32(endian, GoSlice(pe.shb, 4, 8))]]

\* shbLenEndianness: the editor with Endian and shbLen detected, and whether
\* the stream begins with a section header block
shbLenEndianness(pe) ==
    IF GoSlice(pe.shb, 0, 4) # SHBMagic
    THEN [ok |-> FALSE, pe |-> pe]
    ELSE LET endian == IF GoSlice(pe.shb, 8, 12) = BOMBig THEN "big" ELSE "little"
         IN  [ok |-> TRUE,
              pe |-> [pe EXCEPT !.Endian = endian,
                                !.shbLen = Uint32(endian, GoSlice(pe.shb, 4, 8))]]

\* an editor that keeps its buffer when it enters pass-through mode
PassThroughKeepsBuffer(pe) == [pe EXCEPT !.passThrough = TRUE]

\* the editor when it has handed its octets to the sink
PassThrough(pe) == [pe EXCEPT !.passThrough = TRUE, !.shb = << >>, !.cap = 0]

\* process behind processSHB
Processed(pe, r) ==
    IF r.panic
    THEN [panic |-> TRUE, out |-> << >>, pe |-> pe]
    ELSE [panic |-> FALSE, out |-> r.out, pe |-> PassThrough(pe)]

\* process behind the detection: did we gather the complete SHB yet?
Gathered(pe) ==
    IF pe.shbLen # 0 /\ Len(pe.shb) >= pe.shbLen
    THEN Processed(pe, processSHB(pe))
    ELSE [panic |-> FALSE, out |-> << >>, pe |-> pe]

\* process behind shbLenEndianness
Detected(pe, det) ==
    IF ~det.ok
    THEN [panic |-> FALSE, out |-> pe.shb, pe |-> PassThrough(pe)]
    ELSE Gathered(det.pe)

\* a process that hands the gathered octets to the sink while it still gathers
BufferedEchoes(pe) ==
    IF pe.shbLen = 0 /\ Len(pe.shb) >= 12
    THEN Detected(pe, shbLenEndianness(pe))
    ELSE IF pe.shbLen # 0 /\ Len(pe.shb) >= pe.shbLen
    THEN Processed(pe, processSHB(pe))
    ELSE [panic |-> FALSE, out |-> pe.shb, pe |-> pe]

\* process behind the append
Buffered(pe) ==
    IF pe.shbLen = 0 /\ Len(pe.shb) >= 12
    THEN Detected(pe, shbLenEndianness(pe))
    ELSE Gathered(pe)

\* process(b) on an editor whose buffer has capacity newcap after the append:
\* the octets to hand to the sink, the editor afterwards, or a panic
process(pe, b, newcap) ==
    IF pe.passThrough
    THEN [panic |-> FALSE, out |-> b, pe |-> pe]
    ELSE Buffered([pe EXCEPT !.shb = pe.shb \o b, !.cap = newcap])

\* the capacities append(pe.shb, b...) may leave the buffer with
AppendCaps(pe, b) ==
    IF pe.passThrough THEN {pe.cap}
    ELSE IF Len(pe.shb) + Len(b) <= pe.cap THEN {pe.cap}
    ELSE {Len(pe.shb) + Len(b), Len(pe.shb) + Len(b) + MaxSlack}

\* ------------------------------------------------------------------------
\* Input streams and capture targets of the model
\* ------------------------------------------------------------------------
Str_nginx == <<110, 103, 105, 110, 120>>
Str_pod == <<112, 111, 100>>
Str_tcp == <<116, 99, 112>>
Str_u1 == <<117, 49>>
Str_ABC == <<65, 66, 67>>

NilTarget == [Name |-> << >>, Type |-> << >>, NodeName |-> << >>, Cluster |-> << >>]
NginxPod == [Name |-> Str_nginx, Type |-> Str_pod, NodeName |-> << >>, Cluster |-> Str_u1]

\* the fixed part of a section header block after the block type
SHBFixed(endian, bom, declared) ==
    PutUint32(endian, declared) \o bom \o PutUint16(endian, 1) \o PutUint16(endian, 0)
        \o AllOnes8

\* an option as it appears on the wire, with an arbitrary length field
WireOption(endian, code, length, value) ==
    PutUint16(endian, code) \o PutUint16(endian, length) \o value
        \o (IF Len(value) % 4 # 0 THEN Zeros(4 - (Len(value) % 4)) ELSE << >>)

Overspill == <<1, 2, 3, 4, 5>>

\* a comment with old target information that an end marker and the text Z
\* follow, and one whose old target information is empty
Str_OldInfo == Str_ABC \o <<10>> \o targetmarker \o <<120, 10, 45, 45, 45, 10, 90>>
Str_OldEmpty == Str_ABC \o <<10>> \o targetmarker \o <<10, 45, 45, 45, 10, 90>>
\* a comment whose old target information runs to the end of the comment
Str_OldToEnd == Str_ABC \o <<10>> \o targetmarker \o <<120, 58, 32, 121, 10>>

\* option lists of the input blocks: no option, a comment, another option,
\* another option before a comment, two comments, comments with old target
\* information
OptionLists ==
    { << >>,
      << [Code |-> 1, Value |-> Str_ABC] >>,
      << [Code |-> 2, Value |-> <<71, 111>>] >>,
      << [Code |-> 2, Value |-> <<71, 111>>], [Code |-> 1, Value |-> Str_ABC] >>,
      << [Code |-> 1, Value |-> Str_ABC], [Code |-> 2, Value |-> <<71, 111>>],
         [Code |-> 1, Value |-> <<71, 111>>] >>,
      << [Code |-> 1, Value |-> Str_OldInfo] >>,
      << [Code |-> 1, Value |-> Str_OldEmpty] >>,
      << [Code |-> 1, Value |-> Str_OldToEnd] >> }

\* the options of a list as they appear on the wire
RECURSIVE WireList(_, _)
WireList(endian, list) ==
    IF list = << >> THEN << >>
    ELSE WireOption(endian, Head(list).Code, Len(Head(list).Value), Head(list).Value)
             \o WireList(endian, Tail(list))

\* the end-of-options option
EndOfOptions == <<0, 0, 0, 0>>

\* the option area of a list, with or without the end-of-options option
ListArea(endian, list, sentinel) ==
    WireList(endian, list) \o (IF sentinel THEN EndOfOptions ELSE << >>)

\* option areas: those of the option lists, and options whose length field
\* runs past the block
OptionAreas(endian) ==
    { ListArea(endian, l, sentinel) : l \in OptionLists, sentinel \in BOOLEAN }
      \cup { WireOption(endian, 1, 65535, << >>),
             WireOption(endian, 1, 12, Str_ABC) }

\* the byte-order magic of an endianness
BOM(endian) == IF endian = "big" THEN BOMBig ELSE BOMLittle

\* a block with the given option area, followed by the overspill
BlockOf(endian, o) ==
    SHBMagic \o SHBFixed(endian, BOM(endian), 28 + Len(o)) \o o
        \o PutUint32(endian, 28 + Len(o)) \o Overspill

\* well-formed blocks: the declared length is the length of the block
GoodBlocksOf(endian, bom) ==
    { BlockOf(endian, o) : o \in OptionAreas(endian) }

GoodBlocks == GoodBlocksOf("big", BOMBig) \cup GoodBlocksOf("little", BOMLittle)

\* blocks with another declared length than their own, in big endian
OddLengths == {0, 2, 8, 14, 24, 30}
OddBlocks ==
    { SHBMagic \o SHBFixed("big", BOMBig, d) \o o \o PutUint32("big", d) \o Overspill :
        d \in OddLengths,
        o \in {<< >>, WireOption("big", 1, 3, Str_ABC)} }

\* streams that do not begin with the block type of a section header block
BadMagicStreams ==
    { m \o SHBFixed("big", BOMBig, 28) \o PutUint32("big", 28) \o Overspill :
        m \in {<<10, 13, 13, 11>>, <<0, 13, 13, 10>>, <<10, 13, 10, 13>>} }
      \cup { <<1, 2, 3, 4, 5, 6, 7, 8, 9, 10, 11, 12, 13>> }

Streams == GoodBlocks \cup OddBlocks \cup BadMagicStreams

Editors ==
    { NewStreamEditor(NilTarget, << >>, FALSE),
      NewStreamEditor(NginxPod, Str_tcp, TRUE) }

\* sizes of the Write calls of the editor specification
ChunkSizes == {1, 11, 12, 16, 28}

\* the stream of the capture session and the size of its data frames
SessionStream ==
    SHBMagic \o SHBFixed("big", BOMBig, 28) \o PutUint32("big", 28) \o Overspill
SessionChunk == 16

\* ------------------------------------------------------------------------
\* State
\* ------------------------------------------------------------------------
Callers == {"c1", "c2"}
Readers == {"relay", "drain"}
Threads == Readers \cup Callers

\* close control frames of the peer
PeerCloseFrames ==
    { [t |-> "close", code |-> 1000, text |-> "bye"],
      [t |-> "close", code |-> 1001, text |-> "going away"] }

CloseNormalClosure == 1000

VARIABLES
    pe,           \* the StreamEditor
    sinkData,     \* octets the sink has accepted
    input,        \* the stream that is written (editor), that the peer sends (session)
    pos,          \* number of octets of input handed to StreamEditor.Write so far
    panicked,     \* a goroutine panicked: the process is gone
    Closing,      \* ReadingClientWebsocket.Closing
    mu,           \* owner of ReadingClientWebsocket.m, or "free"
    closedCloses, \* number of close(ws.closed) executed
    connClosers,  \* the goroutines that have executed ws.Conn.Close(), in order
    sent,         \* close control frames the client has sent
    wire,         \* frames in flight from the peer to the client
    peerPos,      \* number of octets of input the peer has sent
    peerFrames,   \* number of data and text frames the peer has sent
    peerDone,     \* the peer has sent its close frame, or the network broke
    doneCloses,   \* number of close(csimpl.done) executed
    pc,           \* position of every goroutine
    rd,           \* per reader: locals and last result of Read()
    data,         \* payload the relay goroutine is about to write
    sinkGone,     \* the sink has reported os.ErrClosed
    call,         \* per caller: current operation, number of calls, last return
    option,       \* the Option that is encoded and decoded
    byteOrder,    \* the binary.ByteOrder it is encoded and decoded with
    encoded,      \* what option.Bytes(byteOrder) returned
    decoded,      \* what NewOption returned for these octets
    tc,           \* the TargetCache: ts, index, and the owner of m
    th,           \* per thread that uses the TargetCache: its call and position
    last,         \* the last call made by a single caller, with what it returned
    hc            \* the hostsharktank client: discoveries and connections made

vars == << pe, sinkData, input, pos, panicked, Closing, mu, closedCloses, connClosers,
           sent, wire, peerPos, peerFrames, peerDone, doneCloses, pc, rd, data,
           sinkGone, call, option, byteOrder, encoded, decoded, tc, th, last, hc >>

optionVars == << option, byteOrder, encoded, decoded >>
cacheVars == << tc, th, last, hc >>
editorVars == << pe, sinkData, input, pos >>
wsVars == << Closing, mu, closedCloses, connClosers, sent >>
peerVars == << wire, peerPos, peerFrames, peerDone >>

NoResult == [kind |-> "none", code |-> 0, text |-> ""]
NoFrame == [t |-> "none"]
NoReturn == [op |-> "none", via |-> "none", done |-> FALSE, closed |-> FALSE]

\* the state right after StartCaptureStream has returned
SessionStart ==
    /\ panicked = FALSE
    /\ Closing = FALSE
    /\ mu = "free"
    /\ closedCloses = 0
    /\ connClosers = << >>
    /\ sent = << >>
    /\ wire = << >>
    /\ peerPos = 0
    /\ peerFrames = 0
    /\ peerDone = FALSE
    /\ doneCloses = 0
    /\ pc = [t \in Threads |-> IF t = "relay" THEN "read"
                               ELSE IF t = "drain" THEN "off" ELSE "idle"]
    /\ rd = [r \in Readers |-> [cerr |-> NoFrame, peerInit |-> FALSE, res |-> NoResult]]
    /\ data = << >>
    /\ sinkGone = FALSE
    /\ call = [c \in Callers |-> [op |-> "none", n |-> 0, ret |-> NoReturn]]

\* no option is encoded or decoded
NotEncoded == [done |-> FALSE, bytes |-> << >>]
NotDecoded == [done |-> FALSE, opt |-> NoOption, skip |-> 0]
NoOptionCall ==
    /\ option = NoOption
    /\ byteOrder = "nil"
    /\ encoded = NotEncoded
    /\ decoded = NotDecoded

\* the threads that use the TargetCache
CacheThreads == {"t1", "t2"}

\* a nil *api.Target, and the zero value of a TargetCache
NoTarget == [addr |-> 0]
ZeroCache == [ts |-> << >>, index |-> << >>, m |-> "free"]

NoCall == [op |-> "none"]
IdleThread == [pc |-> "idle", n |-> 0, call |-> NoCall, i |-> 0, res |-> NoCall]
NewClient == [discoveries |-> 0, dials |-> 0]

\* no TargetCache and no client is in use
NoCacheCall ==
    /\ tc = ZeroCache
    /\ th = [t \in CacheThreads |-> IdleThread]
    /\ last = NoCall
    /\ hc = NewClient

Init ==
    /\ SessionStart
    /\ NoOptionCall
    /\ NoCacheCall
    /\ input = SessionStream
    /\ pe = NewStreamEditor(NginxPod, Str_tcp, TRUE)
    /\ sinkData = << >>
    /\ pos = 0

closedFired == closedCloses > 0
doneFired == doneCloses > 0
connClosed == connClosers # << >>

\* ------------------------------------------------------------------------
\* ReadingClientWebsocket.Read, run by the relay and by the drain goroutine
\* ------------------------------------------------------------------------
\* where a reader goes on when Read() has returned an error
AfterReadError(r) == IF r = "relay" THEN "exit" ELSE "ended"

\* ws.Conn.ReadMessage() returns: a frame of the peer, or an error once the
\* transport is closed
ReadMessage(r) ==
    /\ ~panicked
    /\ pc[r] = "read"
    /\ connClosed \/ wire # << >>
    /\ IF connClosed \/ Head(wire).t = "err"
       THEN /\ rd' = [rd EXCEPT ![r].res = [kind |-> "error", code |-> 0, text |-> ""]]
            /\ pc' = [pc EXCEPT ![r] = AfterReadError(r)]
            /\ data' = data
       ELSE IF Head(wire).t = "bin"
       THEN /\ rd' = [rd EXCEPT ![r].res = [kind |-> "data", code |-> 0, text |-> ""]]
            /\ pc' = [pc EXCEPT ![r] = IF r = "relay" THEN "write" ELSE "read"]
            /\ data' = IF r = "relay" THEN Head(wire).data ELSE data
       ELSE IF Head(wire).t = "text"
       THEN /\ rd' = [rd EXCEPT ![r].res = [kind |-> "text", code |-> 0, text |-> ""]]
            /\ pc' = [pc EXCEPT ![r] = AfterReadError(r)]
            /\ data' = data
       ELSE /\ rd' = [rd EXCEPT ![r].cerr = Head(wire)]
            /\ pc' = [pc EXCEPT ![r] = "rd_lock"]
            /\ data' = data
    /\ wire' = IF connClosed THEN wire ELSE Tail(wire)
    /\ UNCHANGED << editorVars, wsVars, peerPos, peerFrames, peerDone, panicked,
                    doneCloses, sinkGone, call >>
    /\ UNCHANGED << optionVars, cacheVars >>

\* ws.m.Lock()
ReadLock(r) ==
    /\ ~panicked
    /\ pc[r] = "rd_lock"
    /\ mu = "free"
    /\ mu' = r
    /\ pc' = [pc EXCEPT ![r] = "rd_check"]
    /\ UNCHANGED << editorVars, peerVars, Closing, closedCloses, connClosers, sent,
                    panicked, doneCloses, rd, data, sinkGone, call >>
    /\ UNCHANGED << optionVars, cacheVars >>

\* a Read() that acknowledges every close frame, closing or not
ReadCheckAlwaysAck(r) ==
    /\ ~panicked
    /\ pc[r] = "rd_check"
    /\ Closing' = TRUE
    /\ rd' = [rd EXCEPT ![r].peerInit = ~Closing]
    /\ pc' = [pc EXCEPT ![r] = "rd_send"]
    /\ UNCHANGED << editorVars, peerVars, mu, closedCloses, connClosers, sent,
                    panicked, doneCloses, data, sinkGone, call >>
    /\ UNCHANGED << optionVars, cacheVars >>

\* if !ws.Closing { ws.Closing = true ...
ReadCheck(r) ==
    /\ ~panicked
    /\ pc[r] = "rd_check"
    /\ IF ~Closing
       THEN /\ Closing' = TRUE
            /\ rd' = [rd EXCEPT ![r].peerInit = TRUE]
            /\ pc' = [pc EXCEPT ![r] = "rd_send"]
       ELSE /\ pc' = [pc EXCEPT ![r] = "rd_connclose"]
            /\ UNCHANGED << Closing, rd >>
    /\ UNCHANGED << editorVars, peerVars, mu, closedCloses, connClosers, sent,
                    panicked, doneCloses, data, sinkGone, call >>
    /\ UNCHANGED << optionVars, cacheVars >>

\* ws.Conn.WriteMessage(websocket.CloseMessage, ...) of a thread
WriteCloseMessage(t) ==
    IF connClosed THEN sent
    ELSE Append(sent, [code |-> CloseNormalClosure, text |-> "ciao", by |-> t])

ReadSend(r) ==
    /\ ~panicked
    /\ pc[r] = "rd_send"
    /\ sent' = WriteCloseMessage(r)
    /\ pc' = [pc EXCEPT ![r] = "rd_connclose"]
    /\ UNCHANGED << editorVars, peerVars, Closing, mu, closedCloses, connClosers,
                    panicked, doneCloses, rd, data, sinkGone, call >>
    /\ UNCHANGED << optionVars, cacheVars >>

\* ws.Conn.Close()
ReadConnClose(r) ==
    /\ ~panicked
    /\ pc[r] = "rd_connclose"
    /\ connClosers' = Append(connClosers, r)
    /\ pc' = [pc EXCEPT ![r] = "rd_closech"]
    /\ UNCHANGED << editorVars, peerVars, Closing, mu, closedCloses, sent,
                    panicked, doneCloses, rd, data, sinkGone, call >>
    /\ UNCHANGED << optionVars, cacheVars >>

\* close(ws.closed): closing a closed channel panics; the panic runs the
\* deferred ws.m.Unlock() and, in the relay goroutine, close(csimpl.done)
ReadCloseChan(r) ==
    /\ ~panicked
    /\ pc[r] = "rd_closech"
    /\ closedCloses' = closedCloses + 1
    /\ IF closedFired
       THEN /\ panicked' = TRUE
            /\ mu' = "free"
            /\ doneCloses' = IF r = "relay" THEN doneCloses + 1 ELSE doneCloses
            /\ pc' = [pc EXCEPT ![r] = "dead"]
       ELSE /\ pc' = [pc EXCEPT ![r] = "rd_ret"]
            /\ UNCHANGED << panicked, mu, doneCloses >>
    /\ UNCHANGED << editorVars, peerVars, Closing, connClosers, sent, rd, data,
                    sinkGone, call >>
    /\ UNCHANGED << optionVars, cacheVars >>

\* a Read() that returns a close error of its own making
ReadReturnOwnError(r) ==
    /\ ~panicked
    /\ pc[r] = "rd_ret"
    /\ mu' = "free"
    /\ rd' = [rd EXCEPT ![r].res = [kind |-> "close", code |-> CloseNormalClosure,
                                     text |-> "ciao"]]
    /\ pc' = [pc EXCEPT ![r] = AfterReadError(r)]
    /\ UNCHANGED << editorVars, peerVars, Closing, closedCloses, connClosers, sent,
                    panicked, doneCloses, data, sinkGone, call >>
    /\ UNCHANGED << optionVars, cacheVars >>

\* return nil, cerr (and the deferred ws.m.Unlock())
ReadReturn(r) ==
    /\ ~panicked
    /\ pc[r] = "rd_ret"
    /\ mu' = "free"
    /\ rd' = [rd EXCEPT ![r].res = [kind |-> "close", code |-> rd[r].cerr.code,
                                     text |-> rd[r].cerr.text]]
    /\ pc' = [pc EXCEPT ![r] = AfterReadError(r)]
    /\ UNCHANGED << editorVars, peerVars, Closing, closedCloses, connClosers, sent,
                    panicked, doneCloses, data, sinkGone, call >>
    /\ UNCHANGED << optionVars, cacheVars >>

\* ------------------------------------------------------------------------
\* The relay goroutine of StartCaptureStream
\* ------------------------------------------------------------------------
\* a relay loop that ends on os.ErrClosed without starting the drain goroutine
RelayWriteNoDrain(outcome, newcap) ==
    /\ ~panicked
    /\ pc["relay"] = "write"
    /\ newcap \in AppendCaps(pe, data)
    /\ LET r == process(pe, data, newcap)
       IN  IF r.panic
           THEN /\ panicked' = TRUE
                /\ doneCloses' = doneCloses + 1
                /\ pc' = [pc EXCEPT !["relay"] = "dead"]
                /\ UNCHANGED << pe, sinkData, pos, sinkGone >>
           ELSE /\ pe' = r.pe
                /\ pos' = pos + Len(data)
                /\ sinkData' = IF outcome = "ok" THEN sinkData \o r.out ELSE sinkData
                /\ sinkGone' = (sinkGone \/ outcome = "closed")
                /\ pc' = IF outcome = "ok" THEN [pc EXCEPT !["relay"] = "read"]
                         ELSE [pc EXCEPT !["relay"] = "exit"]
                /\ UNCHANGED << panicked, doneCloses >>
    /\ UNCHANGED << input, wsVars, peerVars, rd, data, call >>
    /\ UNCHANGED << optionVars, cacheVars >>

\* a relay loop that starts the drain goroutine on every error of the sink
RelayWriteAlwaysDrains(outcome, newcap) ==
    /\ ~panicked
    /\ pc["relay"] = "write"
    /\ newcap \in AppendCaps(pe, data)
    /\ LET r == process(pe, data, newcap)
       IN  IF r.panic
           THEN /\ panicked' = TRUE
                /\ doneCloses' = doneCloses + 1
                /\ pc' = [pc EXCEPT !["relay"] = "dead"]
                /\ UNCHANGED << pe, sinkData, pos, sinkGone >>
           ELSE /\ pe' = r.pe
                /\ pos' = pos + Len(data)
                /\ sinkData' = IF outcome = "ok" THEN sinkData \o r.out ELSE sinkData
                /\ sinkGone' = (sinkGone \/ outcome = "closed")
                /\ pc' = IF outcome = "ok" THEN [pc EXCEPT !["relay"] = "read"]
                         ELSE [pc EXCEPT !["relay"] = "exit", !["drain"] = "read"]
                /\ UNCHANGED << panicked, doneCloses >>
    /\ UNCHANGED << input, wsVars, peerVars, rd, data, call >>
    /\ UNCHANGED << optionVars, cacheVars >>

\* pcapedit.Write(data) with the outcome of the sink's Write: accepted, a
\* PathError with os.ErrClosed, or another error
RelayWrite(outcome, newcap) ==
    /\ ~panicked
    /\ pc["relay"] = "write"
    /\ newcap \in AppendCaps(pe, data)
    /\ LET r == process(pe, data, newcap)
       IN  IF r.panic
           THEN /\ panicked' = TRUE
                /\ doneCloses' = doneCloses + 1
                /\ pc' = [pc EXCEPT !["relay"] = "dead"]
                /\ UNCHANGED << pe, sinkData, pos, sinkGone >>
           ELSE /\ pe' = r.pe
                /\ pos' = pos + Len(data)
                /\ sinkData' = IF outcome = "ok" THEN sinkData \o r.out ELSE sinkData
                /\ sinkGone' = (sinkGone \/ outcome = "closed")
                /\ pc' = IF outcome = "ok" THEN [pc EXCEPT !["relay"] = "read"]
                         ELSE IF outcome = "closed"
                         THEN [pc EXCEPT !["relay"] = "exit", !["drain"] = "read"]
                         ELSE [pc EXCEPT !["relay"] = "exit"]
                /\ UNCHANGED << panicked, doneCloses >>
    /\ UNCHANGED << input, wsVars, peerVars, rd, data, call >>
    /\ UNCHANGED << optionVars, cacheVars >>

\* the deferred close(csimpl.done)
RelayExit ==
    /\ ~panicked
    /\ pc["relay"] = "exit"
    /\ doneCloses' = doneCloses + 1
    /\ pc' = [pc EXCEPT !["relay"] = "ended"]
    /\ UNCHANGED << editorVars, wsVars, peerVars, panicked, rd, data, sinkGone, call >>
    /\ UNCHANGED << optionVars, cacheVars >>

\* ------------------------------------------------------------------------
\* CaptureStreamer: Stop, Wait, StopAfter, and ReadingClientWebsocket.Close
\* ------------------------------------------------------------------------
Returned(c, via) ==
    [call EXCEPT ![c].ret = [op |-> call[c].op, via |-> via, done |-> doneFired,
                             closed |-> closedFired]]

\* cs.Stop(): cs.cws.Close()
Stop(c) ==
    /\ ~panicked
    /\ pc[c] = "idle"
    /\ call[c].n < MaxCalls
    /\ call' = [call EXCEPT ![c].op = "Stop", ![c].n = call[c].n + 1, ![c].ret = NoReturn]
    /\ pc' = [pc EXCEPT ![c] = "cl_lock"]
    /\ UNCHANGED << editorVars, wsVars, peerVars, panicked, doneCloses, rd, data, sinkGone >>
    /\ UNCHANGED << optionVars, cacheVars >>

\* cs.Wait(): <-cs.done
Wait(c) ==
    /\ ~panicked
    /\ pc[c] = "idle"
    /\ call[c].n < MaxCalls
    /\ call' = [call EXCEPT ![c].op = "Wait", ![c].n = call[c].n + 1, ![c].ret = NoReturn]
    /\ pc' = [pc EXCEPT ![c] = "wait"]
    /\ UNCHANGED << editorVars, wsVars, peerVars, panicked, doneCloses, rd, data, sinkGone >>
    /\ UNCHANGED << optionVars, cacheVars >>

WaitReturn(c) ==
    /\ ~panicked
    /\ pc[c] = "wait"
    /\ doneFired
    /\ call' = Returned(c, "done")
    /\ pc' = [pc EXCEPT ![c] = "idle"]
    /\ UNCHANGED << editorVars, wsVars, peerVars, panicked, doneCloses, rd, data, sinkGone >>
    /\ UNCHANGED << optionVars, cacheVars >>

\* cs.StopAfter(d): select on cs.done and time.After(d)
StopAfter(c) ==
    /\ ~panicked
    /\ pc[c] = "idle"
    /\ call[c].n < MaxCalls
    /\ call' = [call EXCEPT ![c].op = "StopAfter", ![c].n = call[c].n + 1,
                            ![c].ret = NoReturn]
    /\ pc' = [pc EXCEPT ![c] = "sa_select"]
    /\ UNCHANGED << editorVars, wsVars, peerVars, panicked, doneCloses, rd, data, sinkGone >>
    /\ UNCHANGED << optionVars, cacheVars >>

\* case <-cs.done
StopAfterDone(c) ==
    /\ ~panicked
    /\ pc[c] = "sa_select"
    /\ doneFired
    /\ call' = Returned(c, "done")
    /\ pc' = [pc EXCEPT ![c] = "idle"]
    /\ UNCHANGED << editorVars, wsVars, peerVars, panicked, doneCloses, rd, data, sinkGone >>
    /\ UNCHANGED << optionVars, cacheVars >>

\* case <-time.After(d): cs.Stop().  A select is decided by the first of its
\* events: the timer case is taken when the timer fires before cs.done is closed.
StopAfterTimer(c) ==
    /\ ~panicked
    /\ pc[c] = "sa_select"
    /\ ~doneFired
    /\ pc' = [pc EXCEPT ![c] = "cl_lock"]
    /\ UNCHANGED << editorVars, wsVars, peerVars, panicked, doneCloses, rd, data,
                    sinkGone, call >>
    /\ UNCHANGED << optionVars, cacheVars >>

\* Close(): ws.m.Lock()
CloseLock(c) ==
    /\ ~panicked
    /\ pc[c] = "cl_lock"
    /\ mu = "free"
    /\ mu' = c
    /\ pc' = [pc EXCEPT ![c] = "cl_check"]
    /\ UNCHANGED << editorVars, peerVars, Closing, closedCloses, connClosers, sent,
                    panicked, doneCloses, rd, data, sinkGone, call >>
    /\ UNCHANGED << optionVars, cacheVars >>

\* a Close() that sends its close frame without setting ws.Closing
CloseCheckNoFlag(c) ==
    /\ ~panicked
    /\ pc[c] = "cl_check"
    /\ IF ~Closing
       THEN /\ Closing' = Closing
            /\ pc' = [pc EXCEPT ![c] = "cl_send"]
       ELSE /\ pc' = [pc EXCEPT ![c] = "cl_unlock"]
            /\ UNCHANGED Closing
    /\ UNCHANGED << editorVars, peerVars, mu, closedCloses, connClosers, sent,
                    panicked, doneCloses, rd, data, sinkGone, call >>
    /\ UNCHANGED << optionVars, cacheVars >>

\* if !ws.Closing { ws.Closing = true ...
CloseCheck(c) ==
    /\ ~panicked
    /\ pc[c] = "cl_check"
    /\ IF ~Closing
       THEN /\ Closing' = TRUE
            /\ pc' = [pc EXCEPT ![c] = "cl_send"]
       ELSE /\ pc' = [pc EXCEPT ![c] = "cl_unlock"]
            /\ UNCHANGED Closing
    /\ UNCHANGED << editorVars, peerVars, mu, closedCloses, connClosers, sent,
                    panicked, doneCloses, rd, data, sinkGone, call >>
    /\ UNCHANGED << optionVars, cacheVars >>

CloseSend(c) ==
    /\ ~panicked
    /\ pc[c] = "cl_send"
    /\ sent' = WriteCloseMessage(c)
    /\ pc' = [pc EXCEPT ![c] = "cl_unlock"]
    /\ UNCHANGED << editorVars, peerVars, Closing, mu, closedCloses, connClosers,
                    panicked, doneCloses, rd, data, sinkGone, call >>
    /\ UNCHANGED << optionVars, cacheVars >>

\* the deferred ws.m.Unlock() of the locked section
CloseUnlock(c) ==
    /\ ~panicked
    /\ pc[c] = "cl_unlock"
    /\ mu' = "free"
    /\ pc' = [pc EXCEPT ![c] = "cl_select"]
    /\ UNCHANGED << editorVars, peerVars, Closing, closedCloses, connClosers, sent,
                    panicked, doneCloses, rd, data, sinkGone, call >>
    /\ UNCHANGED << optionVars, cacheVars >>

\* case <-ws.closed
CloseClosed(c) ==
    /\ ~panicked
    /\ pc[c] = "cl_select"
    /\ closedFired
    /\ call' = Returned(c, "closed")
    /\ pc' = [pc EXCEPT ![c] = "idle"]
    /\ UNCHANGED << editorVars, wsVars, peerVars, panicked, doneCloses, rd, data, sinkGone >>
    /\ UNCHANGED << optionVars, cacheVars >>

\* case <-time.After(10 * time.Second): taken when the timer fires before
\* ws.closed is closed; the goroutine then runs the timeout branch whatever
\* happens to ws.closed meanwhile
CloseTimeout(c) ==
    /\ ~panicked
    /\ pc[c] = "cl_select"
    /\ ~closedFired
    /\ pc' = [pc EXCEPT ![c] = "cl_force"]
    /\ UNCHANGED << editorVars, wsVars, peerVars, panicked, doneCloses, rd, data,
                    sinkGone, call >>
    /\ UNCHANGED << optionVars, cacheVars >>

\* ws.Conn.Close() of the timeout branch
CloseForce(c) ==
    /\ ~panicked
    /\ pc[c] = "cl_force"
    /\ connClosers' = Append(connClosers, c)
    /\ pc' = [pc EXCEPT ![c] = "cl_closech"]
    /\ UNCHANGED << editorVars, peerVars, Closing, mu, closedCloses, sent,
                    panicked, doneCloses, rd, data, sinkGone, call >>
    /\ UNCHANGED << optionVars, cacheVars >>

\* close(ws.closed) of the timeout branch, then Close() returns
CloseCloseChan(c) ==
    /\ ~panicked
    /\ pc[c] = "cl_closech"
    /\ closedCloses' = closedCloses + 1
    /\ IF closedFired
       THEN /\ panicked' = TRUE
            /\ pc' = [pc EXCEPT ![c] = "dead"]
            /\ UNCHANGED call
       ELSE /\ call' = [call EXCEPT ![c].ret = [op |-> call[c].op, via |-> "timeout",
                                                done |-> doneFired, closed |-> TRUE]]
            /\ pc' = [pc EXCEPT ![c] = "idle"]
            /\ UNCHANGED panicked
    /\ UNCHANGED << editorVars, peerVars, Closing, mu, connClosers, sent,
                    doneCloses, rd, data, sinkGone >>
    /\ UNCHANGED << optionVars, cacheVars >>

\* ------------------------------------------------------------------------
\* The peer (capture service) and the network
\* ------------------------------------------------------------------------
PeerData ==
    /\ ~panicked
    /\ ~peerDone
    /\ peerFrames < MaxFrames
    /\ Len(wire) < MaxWire
    /\ peerPos < Len(input)
    /\ LET n == IF Len(input) - peerPos < SessionChunk THEN Len(input) - peerPos
                ELSE SessionChunk
       IN  /\ wire' = Append(wire, [t |-> "bin", data |-> GoSlice(input, peerPos, peerPos + n)])
           /\ peerPos' = peerPos + n
    /\ peerFrames' = peerFrames + 1
    /\ UNCHANGED << editorVars, wsVars, peerDone, panicked, doneCloses, pc, rd, data,
                    sinkGone, call >>
    /\ UNCHANGED << optionVars, cacheVars >>

PeerText ==
    /\ ~panicked
    /\ ~peerDone
    /\ peerFrames < MaxFrames
    /\ Len(wire) < MaxWire
    /\ wire' = Append(wire, [t |-> "text"])
    /\ peerFrames' = peerFrames + 1
    /\ UNCHANGED << editorVars, wsVars, peerPos, peerDone, panicked, doneCloses, pc, rd,
                    data, sinkGone, call >>
    /\ UNCHANGED << optionVars, cacheVars >>

\* the peer's close control frame: its own initiative, or the answer to ours
PeerClose(f) ==
    /\ ~panicked
    /\ ~peerDone
    /\ Len(wire) < MaxWire
    /\ wire' = Append(wire, f)
    /\ peerDone' = TRUE
    /\ UNCHANGED << editorVars, wsVars, peerPos, peerFrames, panicked, doneCloses, pc, rd,
                    data, sinkGone, call >>
    /\ UNCHANGED << optionVars, cacheVars >>

\* the connection breaks: ReadMessage will return an error that is no CloseError
NetError ==
    /\ ~panicked
    /\ ~peerDone
    /\ Len(wire) < MaxWire
    /\ wire' = Append(wire, [t |-> "err"])
    /\ peerDone' = TRUE
    /\ UNCHANGED << editorVars, wsVars, peerPos, peerFrames, panicked, doneCloses, pc, rd,
                    data, sinkGone, call >>
    /\ UNCHANGED << optionVars, cacheVars >>

\* ------------------------------------------------------------------------
\* The capture session
\* ------------------------------------------------------------------------
ReaderStep(r) ==
    \/ ReadMessage(r)
    \/ ReadLock(r)
    \/ ReadCheck(r)
    \/ ReadSend(r)
    \/ ReadConnClose(r)
    \/ ReadCloseChan(r)
    \/ ReadReturn(r)

RelayStep ==
    \/ \E outcome \in {"ok", "closed", "fail"}, newcap \in 0..(Len(input) + MaxSlack) :
          RelayWrite(outcome, newcap)
    \/ RelayExit

CloseStep(c) ==
    \/ CloseLock(c)
    \/ CloseCheck(c)
    \/ CloseSend(c)
    \/ CloseUnlock(c)
    \/ CloseClosed(c)
    \/ CloseTimeout(c)
    \/ CloseForce(c)
    \/ CloseCloseChan(c)

CallerStep(c) ==
    \/ CloseStep(c)
    \/ WaitReturn(c)
    \/ StopAfterDone(c)
    \/ StopAfterTimer(c)

Next ==
    \/ \E r \in Readers : ReaderStep(r)
    \/ RelayStep
    \/ \E c \in Callers : Stop(c) \/ Wait(c) \/ StopAfter(c)
    \/ \E c \in Callers : CallerStep(c)
    \/ PeerData
    \/ PeerText
    \/ \E f \in PeerCloseFrames : PeerClose(f)
    \/ NetError

Spec == Init /\ [][Next]_vars

\* ------------------------------------------------------------------------
\* The StreamEditor on its own, writing into a sink that accepts everything
\* ------------------------------------------------------------------------
InitEditor ==
    /\ SessionStart
    /\ NoOptionCall
    /\ NoCacheCall
    /\ input \in Streams
    /\ pe \in Editors
    /\ sinkData = << >>
    /\ pos = 0

\* pe.Write(b) with the next n octets of the input
EditorWrite(n, newcap) ==
    /\ ~panicked
    /\ n >= 1
    /\ pos + n <= Len(input)
    /\ LET b == GoSlice(input, pos, pos + n)
       IN  /\ newcap \in AppendCaps(pe, b)
           /\ LET r == process(pe, b, newcap)
              IN  IF r.panic
                  THEN /\ panicked' = TRUE
                       /\ UNCHANGED << pe, sinkData, pos >>
                  ELSE /\ pe' = r.pe
                       /\ sinkData' = sinkData \o r.out
                       /\ pos' = pos + n
                       /\ UNCHANGED panicked
    /\ UNCHANGED << input, wsVars, peerVars, doneCloses, pc, rd, data, sinkGone, call >>
    /\ UNCHANGED << optionVars, cacheVars >>

NextEditor ==
    \E n \in ChunkSizes \cup {Len(input) - pos}, newcap \in 0..(Len(input) + MaxSlack) :
        EditorWrite(n, newcap)

SpecEditor == InitEditor /\ [][NextEditor]_vars

\* ------------------------------------------------------------------------
\* Option.Bytes and NewOption on their own
\* ------------------------------------------------------------------------
\* the longest of the short option values
MaxValueLen == 5

\* value lengths around the limit of the 16-bit length field
LongLens == {65531, 65532, 65535, 65536, 65538}

\* option values: the first octets of "Gopher", and long runs of one octet
OptionValues ==
    { SubSeq(<<71, 111, 112, 104, 101, 114, 115>>, 1, n) : n \in 0..MaxValueLen }
        \cup { [i \in 1..n |-> 120] : n \in LongLens }

OptionCodes == {OptEndofOpt, OptComment, 42}

InitOption ==
    /\ SessionStart
    /\ input = << >>
    /\ pe = NewStreamEditor(NilTarget, << >>, FALSE)
    /\ sinkData = << >>
    /\ pos = 0
    /\ option \in [Code : OptionCodes, Value : OptionValues]
    /\ byteOrder \in {"big", "little"}
    /\ encoded = NotEncoded
    /\ decoded = NotDecoded
    /\ NoCacheCall

\* what option.Bytes(byteOrder) leaves behind
BytesReturn(r) ==
    IF r.panic
    THEN /\ panicked' = TRUE
         /\ UNCHANGED encoded
    ELSE /\ encoded' = [done |-> TRUE, bytes |-> r.bytes]
         /\ UNCHANGED panicked

\* option.Bytes(byteOrder)
Bytes ==
    /\ ~panicked
    /\ ~encoded.done
    /\ BytesReturn(OptionBytes(option, byteOrder))
    /\ UNCHANGED << editorVars, wsVars, peerVars, doneCloses, pc, rd, data, sinkGone,
                    call, option, byteOrder, decoded, cacheVars >>

\* what NewOption(encoded, byteOrder) leaves behind
DecodeReturn(r) ==
    IF r.panic
    THEN /\ panicked' = TRUE
         /\ UNCHANGED decoded
    ELSE /\ decoded' = [done |-> TRUE, opt |-> r.opt, skip |-> r.skip]
         /\ UNCHANGED panicked

\* NewOption(b, byteOrder) with the octets b that Bytes returned
Decode ==
    /\ ~panicked
    /\ encoded.done
    /\ ~decoded.done
    /\ DecodeReturn(NewOption(encoded.bytes, Len(encoded.bytes), byteOrder))
    /\ UNCHANGED << editorVars, wsVars, peerVars, doneCloses, pc, rd, data, sinkGone,
                    call, option, byteOrder, encoded, cacheVars >>

NextOption == Bytes \/ Decode

SpecOption == InitOption /\ [][NextOption]_vars

\* ------------------------------------------------------------------------
\* TargetCache
\* ------------------------------------------------------------------------
\* most targets in a list passed to Set
MaxTargets == 2

\* addresses of the objects a caller passes and of the shallow copies that
\* CompleteTarget makes; the targets of a cached list have their position
ArgAddr == -1
CopyAddr == -2

targetkey(prefix, name, nodename) ==
    [prefix |-> prefix, name |-> name, nodename |-> nodename]

\* m[k] = v on a map
MapPut(m, k, v) == [x \in (DOMAIN m) \cup {k} |-> IF x = k THEN v ELSE m[x]]

\* make(api.Targets, cap) with t as its first element
MakeTargets(t) ==
    IF t.Type # "pod" THEN <<t>> \o [i \in 1..(10 - 1) |-> NoTarget] ELSE <<t>>

\* Set: index the capture target just by its prefix+name
IndexByName(index, t, k) ==
    IF k \in DOMAIN index
    THEN MapPut(index, k, Append(index[k], t))
    ELSE MapPut(index, k, MakeTargets(t))

\* Set: one round of the loop over the targets
IndexTarget(index, t) ==
    MapPut(IndexByName(index, t, targetkey(t.Prefix, t.Name, "")),
           targetkey(t.Prefix, t.Name, t.NodeName), <<t>>)

\* Set: the index after the loop over ts[i..]
RECURSIVE IndexFrom(_, _, _)
IndexFrom(index, ts, i) ==
    IF i > Len(ts) THEN index ELSE IndexFrom(IndexTarget(index, ts[i]), ts, i + 1)

\* a Set that indexes the new list on top of the old index
CacheSetKeepsIndex(cache, ts) ==
    [cache EXCEPT !.ts = ts, !.index = IndexFrom(cache.index, ts, 1)]

\* tc.Set(ts) from lock to unlock
CacheSet(cache, ts) == [cache EXCEPT !.ts = ts, !.index = IndexFrom(<< >>, ts, 1)]

\* a Clear that releases the index as well
CacheClearAll(cache) == [cache EXCEPT !.ts = << >>, !.index = << >>]

\* tc.Clear() from lock to unlock
CacheClear(cache) == [cache EXCEPT !.ts = << >>]

\* tc.IsEmpty() and tc.Targets()
IsEmpty(cache) == Len(cache.ts) = 0
Targets(cache) == cache.ts

NotFound == [t |-> NoTarget, ok |-> FALSE]

\* the answer of Pod for the index entry ts
OnePod(ts) ==
    IF Len(ts) = 1 /\ ts[1].Type = "pod" THEN [t |-> ts[1], ok |-> TRUE] ELSE NotFound

\* tc.Pod(name)
Pod(cache, name) ==
    IF targetkey("", name, "") \in DOMAIN cache.index
    THEN OnePod(cache.index[targetkey("", name, "")])
    ELSE NotFound

\* the answer of OnNode for the index entry ts
OneTarget(ts) ==
    IF Len(ts) = 1 THEN [t |-> ts[1], ok |-> TRUE] ELSE NotFound

\* tc.OnNode(nodename, prefix, name)
OnNode(cache, nodename, prefix, name) ==
    IF targetkey(prefix, name, nodename) \in DOMAIN cache.index
    THEN OneTarget(cache.index[targetkey(prefix, name, nodename)])
    ELSE NotFound

\* ------------------------------------------------------------------------
\* CompleteTarget
\* ------------------------------------------------------------------------
\* a check that lets the question mark pass
UnsafeCharsNoQuery == {47, 37}

\* the characters of "/?%"
UnsafeChars == {47, 63, 37}
ContainsAny(str, chars) == \E i \in 1..Len(str) : str[i] \in chars

ErrNoTarget == "no capture target specified"
ErrNonExisting == "non-existing target"
ErrRouting == "missing or invalid capture service routing"

\* CompleteTarget behind the lookup: the check of the capture service
CheckRouting(t) ==
    IF ContainsAny(t.CaptureService, UnsafeChars)
    THEN [t |-> NoTarget, err |-> ErrRouting]
    ELSE [t |-> t, err |-> "nil"]

\* CompleteTarget with what the lookup in the cache returned
Completed(found) ==
    IF ~found.ok
    THEN [t |-> NoTarget, err |-> ErrNonExisting]
    ELSE CheckRouting([found.t EXCEPT !.addr = CopyAddr])

\* a CompleteTarget that copies a sufficient description as well
CompleteTargetCopies(t, opts, cache) ==
    IF t = NoTarget THEN [t |-> NoTarget, err |-> ErrNoTarget]
    ELSE IF t.CaptureService # << >>
         THEN CheckRouting([t EXCEPT !.addr = CopyAddr])
    ELSE IF t.Type = "pod" THEN Completed(Pod(cache, t.Name))
    ELSE Completed(OnNode(cache, t.NodeName, t.Prefix, t.Name))

\* a CompleteTarget that looks every type up by name
CompleteTargetByName(t, opts, cache) ==
    IF t = NoTarget THEN [t |-> NoTarget, err |-> ErrNoTarget]
    ELSE IF t.CaptureService # << >> THEN CheckRouting(t)
    ELSE Completed(Pod(cache, t.Name))

\* CompleteTarget(t, opts, ts)
CompleteTarget(t, opts, cache) ==
    IF t = NoTarget THEN [t |-> NoTarget, err |-> ErrNoTarget]
    ELSE IF t.CaptureService # << >> THEN CheckRouting(t)
    ELSE IF t.Type = "pod" THEN Completed(Pod(cache, t.Name))
    ELSE Completed(OnNode(cache, t.NodeName, t.Prefix, t.Name))

\* ------------------------------------------------------------------------
\* The TargetCache and CompleteTarget, used by one caller
\* ------------------------------------------------------------------------
Str_svc == <<115, 118, 99>>
Str_a_b == <<97, 47, 98>>
Str_a_q == <<97, 63, 98>>

Target(addr, name, type, prefix, nodename, service, nifs) ==
    [addr |-> addr, Name |-> name, Type |-> type, Prefix |-> prefix,
     NodeName |-> nodename, CaptureService |-> service, NetworkInterfaces |-> nifs]

\* the targets a discovery may report: pods and containers, with and without
\* prefix, node name and capture service
ModelTargets ==
    { Target(0, "x", "pod", "", "n1", Str_svc, <<"eth0">>),
      Target(0, "x", "pod", "", "", Str_svc, <<"eth0">>),
      Target(0, "x", "pod", "p", "n1", Str_svc, <<"eth0">>),
      Target(0, "x", "docker", "", "n1", << >>, <<"eth0">>),
      Target(0, "y", "docker", "", "n1", Str_a_b, <<"eth0">>),
      Target(0, "y", "pod", "", "n1", << >>, <<"eth0">>) }

\* a list of targets, each an object of its own
Placed(list) == [i \in 1..Len(list) |-> [list[i] EXCEPT !.addr = i]]

TargetLists ==
    { Placed(l) : l \in UNION { [1..n -> ModelTargets] : n \in 0..MaxTargets } }

Names == {"x", "y"}
Prefixes == {"", "p"}
NodeNames == {"", "n1"}

\* the descriptions a caller passes to CompleteTarget
Descriptions ==
    { NoTarget,
      Target(ArgAddr, "x", "pod", "", "", << >>, << >>),
      Target(ArgAddr, "x", "pod", "p", "n2", << >>, <<"eth9">>),
      Target(ArgAddr, "y", "pod", "", "", << >>, << >>),
      Target(ArgAddr, "x", "docker", "", "n1", << >>, << >>),
      Target(ArgAddr, "x", "lxc", "", "n1", << >>, << >>),
      Target(ArgAddr, "y", "docker", "", "n1", << >>, <<"eth9">>),
      Target(ArgAddr, "z", "docker", "", "n1", << >>, << >>),
      Target(ArgAddr, "z", "pod", "", "", Str_svc, << >>),
      Target(ArgAddr, "z", "pod", "", "", Str_a_q, << >>) }

\* capture options: Nifs left zero, or one interface
Options == { [Nifs |-> << >>], [Nifs |-> <<"eth1">>] }

InitCache ==
    /\ SessionStart
    /\ NoOptionCall
    /\ input = << >>
    /\ pe = NewStreamEditor(NilTarget, << >>, FALSE)
    /\ sinkData = << >>
    /\ pos = 0
    /\ NoCacheCall

\* everything but the cache and the last call
CacheFrame ==
    UNCHANGED << editorVars, wsVars, peerVars, panicked, doneCloses, pc, rd, data,
                 sinkGone, call, optionVars, th, hc >>

\* the names of the targets of a list
NamesOf(ts) == { ts[i].Name : i \in 1..Len(ts) }

\* tc.Set(ts); the call remembers the names the cache listed before it
CallSet(ts) ==
    /\ tc' = CacheSet(tc, ts)
    /\ last' = [op |-> "Set", had |-> NamesOf(tc.ts)]
    /\ CacheFrame

CallClear ==
    /\ tc' = CacheClear(tc)
    /\ last' = [op |-> "Clear"]
    /\ CacheFrame

CallIsEmpty ==
    /\ last' = [op |-> "IsEmpty", res |-> IsEmpty(tc)]
    /\ tc' = tc
    /\ CacheFrame

CallTargets ==
    /\ last' = [op |-> "Targets", res |-> Targets(tc)]
    /\ tc' = tc
    /\ CacheFrame

CallPod(name) ==
    /\ last' = [op |-> "Pod", name |-> name, res |-> Pod(tc, name)]
    /\ tc' = tc
    /\ CacheFrame

CallOnNode(nodename, prefix, name) ==
    /\ last' = [op |-> "OnNode", nodename |-> nodename, prefix |-> prefix,
                name |-> name, res |-> OnNode(tc, nodename, prefix, name)]
    /\ tc' = tc
    /\ CacheFrame

CallCompleteTarget(t, opts) ==
    /\ last' = [op |-> "CompleteTarget", t |-> t, opts |-> opts,
                res |-> CompleteTarget(t, opts, tc)]
    /\ tc' = tc
    /\ CacheFrame

NextCache ==
    \/ \E ts \in TargetLists : CallSet(ts)
    \/ CallClear
    \/ CallIsEmpty
    \/ CallTargets
    \/ \E name \in Names : CallPod(name)
    \/ \E nodename \in NodeNames, prefix \in Prefixes, name \in Names :
          CallOnNode(nodename, prefix, name)
    \/ \E t \in Descriptions, opts \in Options : CallCompleteTarget(t, opts)

SpecCache == InitCache /\ [][NextCache]_vars

\* ------------------------------------------------------------------------
\* The TargetCache, used by several goroutines: every statement between
\* tc.m.Lock() and the deferred tc.m.Unlock() is a step of its own
\* ------------------------------------------------------------------------
MaxThreadCalls == 2

\* the lists the goroutines set
ThreadLists ==
    { Placed(<< Target(0, "x", "pod", "", "n1", Str_svc, <<"eth0">>) >>),
      Placed(<< Target(0, "y", "docker", "", "n1", Str_a_b, <<"eth0">>),
                Target(0, "x", "pod", "", "n1", Str_svc, <<"eth0">>) >>) }

Lookups == {"IsEmpty", "Targets", "Pod", "OnNode"}

ThreadCalls ==
    { [op |-> "Set", ts |-> l] : l \in ThreadLists }
    \cup { [op |-> "Clear"], [op |-> "IsEmpty"], [op |-> "Targets"] }
    \cup { [op |-> "Pod", name |-> name] : name \in Names }
    \cup { [op |-> "OnNode", nodename |-> "n1", prefix |-> "", name |-> name] :
             name \in Names }

\* what a lookup returns for the cache it reads
Answer(c, cache) ==
    CASE c.op = "IsEmpty" -> IsEmpty(cache)
      [] c.op = "Targets" -> Targets(cache)
      [] c.op = "Pod" -> Pod(cache, c.name)
      [] c.op = "OnNode" -> OnNode(cache, c.nodename, c.prefix, c.name)

\* a mutex that lets a second goroutine in
CanLockAlways(cache, t) == TRUE

\* tc.m.Lock() returns when no goroutine holds the mutex
CanLock(cache, t) == cache.m = "free"

ThreadFrame ==
    UNCHANGED << editorVars, wsVars, peerVars, panicked, doneCloses, pc, rd, data,
                 sinkGone, call, optionVars, hc >>

\* a goroutine calls an operation of the cache
ThreadCall(t, c) ==
    /\ th[t].pc = "idle"
    /\ th[t].n < MaxThreadCalls
    /\ th' = [th EXCEPT ![t] = [pc |-> "lock", n |-> th[t].n + 1, call |-> c,
                                i |-> 0, res |-> NoCall]]
    /\ UNCHANGED << tc, last >>
    /\ ThreadFrame

\* tc.m.Lock()
ThreadLock(t) ==
    /\ th[t].pc = "lock"
    /\ CanLock(tc, t)
    /\ tc' = [tc EXCEPT !.m = t]
    /\ th' = [th EXCEPT ![t].pc = "body"]
    /\ UNCHANGED last
    /\ ThreadFrame

\* Set: tc.ts = ts
SetList(t) ==
    /\ th[t].pc = "body"
    /\ th[t].call.op = "Set"
    /\ tc' = [tc EXCEPT !.ts = th[t].call.ts]
    /\ th' = [th EXCEPT ![t].pc = "make"]
    /\ UNCHANGED last
    /\ ThreadFrame

\* Set: tc.index = make(map[targetkey]api.Targets)
SetMakeIndex(t) ==
    /\ th[t].pc = "make"
    /\ tc' = [tc EXCEPT !.index = << >>]
    /\ th' = [th EXCEPT ![t].pc = IF Len(th[t].call.ts) = 0 THEN "unlock" ELSE "loop",
                        ![t].i = 1]
    /\ UNCHANGED last
    /\ ThreadFrame

\* Set: one round of the loop over ts
SetIndex(t) ==
    /\ th[t].pc = "loop"
    /\ tc' = [tc EXCEPT !.index = IndexTarget(tc.index, th[t].call.ts[th[t].i])]
    /\ th' = [th EXCEPT ![t].pc = IF th[t].i = Len(th[t].call.ts)
                                  THEN "unlock" ELSE "loop",
                        ![t].i = th[t].i + 1]
    /\ UNCHANGED last
    /\ ThreadFrame

\* Clear: tc.ts = api.Targets{}
ClearList(t) ==
    /\ th[t].pc = "body"
    /\ th[t].call.op = "Clear"
    /\ tc' = [tc EXCEPT !.ts = << >>]
    /\ th' = [th EXCEPT ![t].pc = "unlock"]
    /\ UNCHANGED last
    /\ ThreadFrame

\* IsEmpty, Targets, Pod, OnNode: the read of the list or of the index
ThreadRead(t) ==
    /\ th[t].pc = "body"
    /\ th[t].call.op \in Lookups
    /\ th' = [th EXCEPT ![t].pc = "unlock", ![t].res = Answer(th[t].call, tc)]
    /\ UNCHANGED << tc, last >>
    /\ ThreadFrame

\* the deferred tc.m.Unlock() and the return
ThreadUnlock(t) ==
    /\ th[t].pc = "unlock"
    /\ tc' = [tc EXCEPT !.m = "free"]
    /\ last' = [op |-> th[t].call.op, res |-> th[t].res]
    /\ th' = [th EXCEPT ![t] = [IdleThread EXCEPT !.n = th[t].n]]
    /\ ThreadFrame

NextThreads ==
    \E t \in CacheThreads :
        \/ \E c \in ThreadCalls : ThreadCall(t, c)
        \/ ThreadLock(t)
        \/ SetList(t)
        \/ SetMakeIndex(t)
        \/ SetIndex(t)
        \/ ClearList(t)
        \/ ThreadRead(t)
        \/ ThreadUnlock(t)

SpecThreads == InitCache /\ [][NextThreads]_vars

\* ------------------------------------------------------------------------
\* The client of a capture service on a standalone host: Targets, Clear and
\* Capture, each from call to return
\* ------------------------------------------------------------------------
MaxDiscoveries == 2
MaxDials == 2

\* the host of the service URL
Str_hostn == "n1"

\* what the discovery request brings: a failure, or a list of targets
ServiceLists ==
    { << >>,
      Placed(<< Target(0, "x", "pod", "", "", Str_svc, <<"eth0">>) >>),
      Placed(<< Target(0, "y", "docker", "", "", Str_a_b, <<"eth0">>),
                Target(0, "x", "pod", "", "", Str_svc, <<"eth0">>) >>) }
Responses == { [ok |-> FALSE] } \cup { [ok |-> TRUE, ts |-> l] : l \in ServiceLists }

\* discover: t.NodeName = hostn for every target of the response
OnHost(ts) == [i \in 1..Len(ts) |-> [ts[i] EXCEPT !.NodeName = Str_hostn]]

\* a discover that empties the cache when the request fails
discoverFailureResets(cache, response) ==
    IF ~IsEmpty(cache) THEN [cache |-> cache, ts |-> Targets(cache), asked |-> 0]
    ELSE IF ~response.ok THEN [cache |-> CacheSet(cache, << >>), ts |-> << >>, asked |-> 1]
    ELSE [cache |-> CacheSet(cache, OnHost(response.ts)),
          ts |-> OnHost(response.ts), asked |-> 1]

\* a discover that asks the service whatever the cache holds
discoverAlways(cache, response) ==
    IF ~response.ok THEN [cache |-> cache, ts |-> << >>, asked |-> 1]
    ELSE [cache |-> CacheSet(cache, OnHost(response.ts)),
          ts |-> OnHost(response.ts), asked |-> 1]

\* discover(): the cache it leaves and the list it returns
discover(cache, response) ==
    IF ~IsEmpty(cache) THEN [cache |-> cache, ts |-> Targets(cache), asked |-> 0]
    ELSE IF ~response.ok THEN [cache |-> cache, ts |-> << >>, asked |-> 1]
    ELSE [cache |-> CacheSet(cache, OnHost(response.ts)),
          ts |-> OnHost(response.ts), asked |-> 1]

needsTargetDiscovery(t) == Len(t.NetworkInterfaces) = 0

\* the descriptions a caller passes to Capture
ClientDescriptions == Descriptions \ { NoTarget }

ClientFrame ==
    UNCHANGED << editorVars, wsVars, peerVars, panicked, doneCloses, pc, rd, data,
                 sinkGone, call, optionVars, th >>

\* hc.Targets()
ClientTargets(response) ==
    /\ hc.discoveries + discover(tc, response).asked <= MaxDiscoveries
    /\ tc' = discover(tc, response).cache
    /\ hc' = [hc EXCEPT !.discoveries = hc.discoveries + discover(tc, response).asked]
    /\ last' = [op |-> "Targets", res |-> discover(tc, response).ts]
    /\ ClientFrame

\* hc.Clear()
ClientClear ==
    /\ tc' = CacheClear(tc)
    /\ last' = [op |-> "Clear"]
    /\ hc' = hc
    /\ ClientFrame

\* Capture, where it discovers and completes: the resolution failed, or the
\* service is dialed for the completed target
CaptureResolved(t, opts, found, completed, dial) ==
    /\ hc.discoveries + found.asked <= MaxDiscoveries
    /\ tc' = found.cache
    /\ IF completed.err # "nil"
       THEN /\ hc' = [hc EXCEPT !.discoveries = hc.discoveries + found.asked]
            /\ last' = [op |-> "Capture", t |-> t, opts |-> opts,
                        dialed |-> NoTarget, err |-> completed.err]
       ELSE /\ hc.dials < MaxDials
            /\ hc' = [hc EXCEPT !.discoveries = hc.discoveries + found.asked,
                                !.dials = hc.dials + 1]
            /\ last' = [op |-> "Capture", t |-> t, opts |-> opts,
                        dialed |-> completed.t, err |-> dial]
    /\ ClientFrame

\* Capture, where it skips the discovery: the service is dialed for t
CaptureSkipped(t, opts, dial) ==
    /\ hc.dials < MaxDials
    /\ tc' = tc
    /\ hc' = [hc EXCEPT !.dials = hc.dials + 1]
    /\ last' = [op |-> "Capture", t |-> t, opts |-> opts,
                dialed |-> t, err |-> dial]
    /\ ClientFrame

\* hc.Capture(w, t, opts) up to the return of wsd.Dial
ClientCapture(t, opts, response, dial) ==
    IF IsEmpty(tc) /\ needsTargetDiscovery(t)
    THEN CaptureResolved(t, opts, discover(tc, response),
                         CompleteTarget(t, opts, discover(tc, response).cache), dial)
    ELSE CaptureSkipped(t, opts, dial)

DialOutcomes == { "nil", "cannot contact capture service" }

NextClient ==
    \/ \E response \in Responses : ClientTargets(response)
    \/ ClientClear
    \/ \E t \in ClientDescriptions, opts \in Options, response \in Responses,
          dial \in DialOutcomes :
          ClientCapture(t, opts, response, dial)

SpecClient == InitCache /\ [][NextClient]_vars

\* ------------------------------------------------------------------------
\* Properties
\* ------------------------------------------------------------------------
InClose(c) == pc[c] \in {"cl_lock", "cl_check", "cl_send", "cl_unlock", "cl_select",
                         "cl_force", "cl_closech"}
ReadErrorKinds == {"error", "text", "close"}
AckBy(t) == [code |-> CloseNormalClosure, text |-> "ciao", by |-> t]

\* C1: whenever a Stop() call has returned, the session's completion signal
\* (csimpl.done) had fired when it returned.
C1_StopReturnsAfterDone ==
    \A c \in Callers : call[c].ret.op = "Stop" => call[c].ret.done

\* C2: the closer's completion signal (ws.closed) is closed at most once.
C2_ClosedAtMostOnce == closedCloses <= 1

\* C3: if the peer never sends a close frame, every Close() call returns: no
\* Close() call is left behind, unreturned for ever, in a process that a panic
\* has ended.
C3_CloseReturns ==
    \A c \in Callers :
        ~peerDone /\ (InClose(c) \/ pc[c] = "dead") => ~panicked

\* C4: the client sends at most one close control frame: a thread about to
\* send one has found no frame sent and no close completed, so a Close() that
\* runs after the close has completed sends nothing.
C4_AtMostOneCloseFrame ==
    /\ Len(sent) <= 1
    /\ \A t \in Threads : pc[t] \in {"cl_send", "rd_send"} => sent = << >> /\ ~closedFired

C4_Witness ==
    /\ Len(sent) = 1
    /\ \A c \in Callers : call[c].ret.op = "Stop"
    /\ \E r \in Readers : rd[r].res.kind = "close"

\* C5: a Read() that finds the closing flag unset on a close frame sets the
\* flag, sends exactly one acknowledgement (normal closure, "ciao"), then closes
\* the transport, then fires ws.closed, and returns the close error with the
\* peer's code and text.
C5_PeerInitiatedClose ==
    \A r \in Readers : rd[r].peerInit =>
        /\ Closing
        /\ pc[r] = "rd_send" => sent = << >> /\ ~connClosed /\ ~closedFired
        /\ pc[r] = "rd_connclose" => sent = << AckBy(r) >> /\ ~connClosed /\ ~closedFired
        /\ pc[r] = "rd_closech" => sent = << AckBy(r) >> /\ connClosers = << r >> /\ ~closedFired
        /\ pc[r] = "rd_ret" => sent = << AckBy(r) >> /\ connClosers = << r >> /\ closedCloses = 1
        /\ pc[r] \notin {"rd_send", "rd_connclose", "rd_closech", "rd_ret"} =>
              /\ sent = << AckBy(r) >>
              /\ closedFired
              /\ rd[r].res = [kind |-> "close", code |-> rd[r].cerr.code,
                              text |-> rd[r].cerr.text]

C5_Witness ==
    \E r \in Readers :
        /\ rd[r].peerInit
        /\ rd[r].res = [kind |-> "close", code |-> 1001, text |-> "going away"]
        /\ closedCloses = 1

\* C6: the relay loop ends on the first Read() error, csimpl.done is closed
\* exactly once and only when the loop has ended, and once it is closed every
\* Wait() call returns: no Wait() call is left behind, unreturned for ever, in
\* a process that a panic has ended.
C6_DoneOnceAndWaitReturns ==
    /\ rd["relay"].res.kind \in ReadErrorKinds => pc["relay"] \in {"exit", "ended"}
    /\ doneCloses <= 1
    /\ doneFired <=> pc["relay"] \in {"ended", "dead"}
    /\ \A c \in Callers : doneFired /\ pc[c] = "wait" => ~panicked

\* C7: a StopAfter() that returns through cs.done has sent no frame and has not
\* touched the connection; one that returns through Stop() returns when the
\* capture has terminated.
C7_StopAfter ==
    \A c \in Callers : call[c].ret.op = "StopAfter" =>
        /\ call[c].ret.via = "done" =>
              /\ \A i \in 1..Len(sent) : sent[i].by # c
              /\ \A i \in 1..Len(connClosers) : connClosers[i] # c
        /\ call[c].ret.via # "done" => call[c].ret.done

\* C8: once the sink has reported os.ErrClosed the relay loop has ended and the
\* drain goroutine runs until its Read() returns an error, nothing is written
\* to the sink any more, and a close frame the drain goroutine consumes
\* completes the close: the transport and ws.closed are closed.
C8_Drain ==
    /\ [](sinkGone => pc["relay"] \in {"exit", "ended"} /\ pc["drain"] # "off")
    /\ [](pc["drain"] = "ended" => rd["drain"].res.kind \in ReadErrorKinds)
    /\ [](rd["drain"].res.kind = "close" => closedFired /\ connClosed)
    /\ [][sinkGone' => sinkData' = sinkData]_vars

C8_Witness ==
    /\ sinkGone
    /\ ~panicked
    /\ rd["drain"].res.kind = "close"
    /\ connClosers = << "drain" >>
    /\ \E c \in Callers :
          /\ call[c].ret.op = "Stop"
          /\ call[c].ret.via = "closed"
          /\ sent = << AckBy(c) >>

\* C9: for a stream whose first four octets are not the SHB block type, once
\* twelve octets have been written the editor is in pass-through with an empty
\* buffer and the sink holds exactly the octets written so far.
C9_FailOpen ==
    GoSlice(input, 0, 4) # SHBMagic /\ pos >= 12 =>
        /\ ~panicked
        /\ pe.passThrough
        /\ pe.shb = << >>
        /\ sinkData = GoSlice(input, 0, pos)

C9_Witness ==
    /\ GoSlice(input, 0, 4) # SHBMagic
    /\ GoSlice(input, 0, 3) = GoSlice(SHBMagic, 0, 3)
    /\ pos = Len(input)
    /\ pe.passThrough
    /\ sinkData = input

\* C10: for a stream that begins with the SHB block type no Write panics, and
\* when the stream has been written the editor is in pass-through.
C10_NeverFatal ==
    GoSlice(input, 0, 4) = SHBMagic =>
        /\ ~panicked
        /\ pos = Len(input) => pe.passThrough

\* the editor has rewritten the section header block of its input
Rewritten ==
    /\ ~panicked
    /\ pe.passThrough
    /\ GoSlice(input, 0, 4) = SHBMagic

\* C11: pass-through is terminal and transparent: an editor in pass-through
\* has an empty buffer, and a Write in pass-through leaves it in pass-through
\* with an empty buffer, does not panic and hands exactly its octets to the sink.
C11_PassThroughTerminal ==
    /\ [](pe.passThrough => pe.shb = << >>)
    /\ [][pe.passThrough =>
            /\ pe'.passThrough
            /\ pe'.shb = << >>
            /\ ~panicked'
            /\ pos' > pos
            /\ sinkData' = sinkData \o GoSlice(input, pos, pos')]_vars

C11_Witness ==
    /\ Rewritten
    /\ pos = Len(input)
    /\ pos >= pe.shbLen + Len(Overspill)
    /\ Len(sinkData) > Len(input)
    /\ GoSlice(sinkData, Len(sinkData) - Len(Overspill), Len(sinkData)) = Overspill

\* the length field at the head of what the sink has received
EmittedLen == Uint32(pe.Endian, GoSlice(sinkData, 4, 8))

\* the option area of the block the sink has received
EmittedOptions == GoSlice(sinkData, 24, EmittedLen - 4)

\* the octets an option with a value of n octets takes on the wire
WireSize(n) == 4 + n + ((4 - (n % 4)) % 4)

\* the comment of a block without a comment option: start marker and target YAML
FreshInfo == targetmarker \o ContainerInfo(pe.container, pe.captureFilter, pe.noProm)

HasComment(list) == \E i \in 1..Len(list) : list[i].Code = OptComment

\* C12: for a block without a comment option the emitted option area is one
\* comment option holding the start marker and the target YAML, followed by
\* the original options: it is the first option and the only comment.
C12_FreshComment ==
    Rewritten =>
        \A e \in {"big", "little"}, l \in OptionLists, sentinel \in BOOLEAN :
            ~HasComment(l) /\ input = BlockOf(e, ListArea(e, l, sentinel)) =>
                EmittedOptions =
                    WireOption(e, OptComment, Len(FreshInfo), FreshInfo) \o WireList(e, l)

C12_Witness ==
    /\ Rewritten
    /\ pe.container = NginxPod
    /\ input = BlockOf("little", ListArea("little", << [Code |-> 2, Value |-> <<71, 111>>] >>, TRUE))
    /\ Uint16("little", GoSlice(sinkData, 24, 26)) = OptComment
    /\ GoSlice(sinkData, 28, 28 + Len(targetmarker)) = targetmarker

\* C13: after the rewrite the leading and the trailing length field of the
\* emitted block both hold the number of octets of the emitted block (what
\* the sink received less the overspill), which is a multiple of four.
C13_LengthFields ==
    Rewritten =>
        /\ EmittedLen = Len(sinkData) - (pos - pe.shbLen)
        /\ Uint32(pe.Endian, GoSlice(sinkData, EmittedLen - 4, EmittedLen)) = EmittedLen
        /\ EmittedLen % 4 = 0
        /\ EmittedLen = 24 + Len(EmittedOptions) + 4

C13_Witness ==
    /\ Rewritten
    /\ pe.Endian = "big"
    /\ pos > pe.shbLen
    /\ EmittedLen > pe.shbLen
    /\ Uint32("big", GoSlice(sinkData, EmittedLen - 4, EmittedLen))
           = Len(sinkData) - (pos - pe.shbLen)

\* C14 as stated: for a block without a comment option the new length is the
\* original length plus the size of the comment option, with or without an
\* end-of-options option in the original block.
C14_LengthGrowsByComment ==
    Rewritten =>
        \A e \in {"big", "little"}, l \in OptionLists, sentinel \in BOOLEAN :
            ~HasComment(l) /\ input = BlockOf(e, ListArea(e, l, sentinel)) =>
                EmittedLen = Uint32(e, GoSlice(input, 4, 8)) + WireSize(Len(FreshInfo))

\* C14 amended: the new length is the original length plus the size of the
\* comment option, less the four octets of the end-of-options option where
\* the original block had one.
C14_LengthGrowsLessSentinel ==
    Rewritten =>
        \A e \in {"big", "little"}, l \in OptionLists, sentinel \in BOOLEAN :
            ~HasComment(l) /\ input = BlockOf(e, ListArea(e, l, sentinel)) =>
                EmittedLen = Uint32(e, GoSlice(input, 4, 8)) + WireSize(Len(FreshInfo))
                                 - (IF sentinel THEN 4 ELSE 0)

C14_Witness ==
    /\ Rewritten
    /\ input = BlockOf("big", ListArea("big", << >>, TRUE))
    /\ pe.shbLen = 32
    /\ EmittedLen = 28 + WireSize(Len(FreshInfo))

\* C17: the octets behind the original block follow the emitted block in the
\* sink, unchanged and in order.
C17_Overspill ==
    Rewritten =>
        GoSlice(sinkData, EmittedLen, Len(sinkData)) = GoSlice(input, pe.shbLen, pos)

C17_Witness ==
    /\ Rewritten
    /\ pos - pe.shbLen \in 1..(Len(Overspill) - 1)
    /\ GoSlice(sinkData, EmittedLen, Len(sinkData))
           = GoSlice(Overspill, 0, pos - pe.shbLen)

\* the options of a list without its first comment option
WithoutFirstComment(list) ==
    IF ~HasComment(list) THEN list
    ELSE LET i == CHOOSE k \in 1..Len(list) :
                      /\ list[k].Code = OptComment
                      /\ \A j \in 1..(k - 1) : list[j].Code # OptComment
         IN  SubSeq(list, 1, i - 1) \o SubSeq(list, i + 1, Len(list))

\* C18: the emitted option area is a comment option followed by the original
\* options without the first comment option, in their order and with their
\* codes and values; the end-of-options option is not among them.
C18_OptionList ==
    Rewritten =>
        \A e \in {"big", "little"}, l \in OptionLists, sentinel \in BOOLEAN :
            input = BlockOf(e, ListArea(e, l, sentinel)) =>
                /\ Uint16(e, GoSlice(sinkData, 24, 26)) = OptComment
                /\ GoSlice(sinkData,
                           24 + WireSize(Uint16(e, GoSlice(sinkData, 26, 28))),
                           EmittedLen - 4)
                       = WireList(e, WithoutFirstComment(l))

C18_Witness ==
    /\ Rewritten
    /\ \E l \in OptionLists :
          /\ Len(l) = 3
          /\ input = BlockOf("big", ListArea("big", l, TRUE))
          /\ GoSlice(sinkData, EmittedLen - 4 - Len(WireList("big", Tail(l))), EmittedLen - 4)
                 = WireList("big", Tail(l))

\* the text of the comment option at the head of the emitted option area
EmittedComment ==
    GoSlice(sinkData, 28, 28 + Uint16(pe.Endian, GoSlice(sinkData, 26, 28)))

\* the value of the first comment option of a list that has one
FirstComment(list) ==
    list[CHOOSE k \in 1..Len(list) :
             /\ list[k].Code = OptComment
             /\ \A j \in 1..(k - 1) : list[j].Code # OptComment].Value

\* where the start marker found by the match start begins
MarkerBegin(comment, start) ==
    IF comment[start[1] + 1] = 10 THEN start[1] + 1 ELSE start[1]

\* a comment without the region from its start marker up to the end marker
\* behind it, or up to the end of the comment where there is no end marker
WithoutRegion(comment, start, end) ==
    IF end = << >>
    THEN GoSlice(comment, 0, MarkerBegin(comment, start))
    ELSE GoSlice(comment, 0, MarkerBegin(comment, start))
             \o GoSlice(comment, start[2] + end[1], Len(comment))

OldInfoRemoved(comment) ==
    WithoutRegion(comment, markerstart(comment),
                  markerend(GoSlice(comment, markerstart(comment)[2], Len(comment))))

\* C15: where the first comment holds old target information, the new comment
\* is the old one without the region from the start marker up to the end
\* marker (or the end of the comment), with a line break behind it if it is
\* not empty and does not end in one, followed by the fresh target information.
C15_RemovesOldInfo ==
    Rewritten =>
        \A e \in {"big", "little"}, l \in OptionLists, sentinel \in BOOLEAN :
            /\ HasComment(l)
            /\ input = BlockOf(e, ListArea(e, l, sentinel))
            /\ markerstart(FirstComment(l)) # << >>
            => EmittedComment = WithLineBreak(OldInfoRemoved(FirstComment(l))) \o FreshInfo

\* the number of start markers in a text
Markers(text) == Cardinality({ i \in 0..Len(text) : MatchAt(text, targetmarker, i) })

\* C16: where the first comment holds old target information, the new comment
\* holds the start marker exactly once.
C16_OneMarker ==
    Rewritten =>
        \A e \in {"big", "little"}, l \in OptionLists, sentinel \in BOOLEAN :
            /\ HasComment(l)
            /\ input = BlockOf(e, ListArea(e, l, sentinel))
            /\ markerstart(FirstComment(l)) # << >>
            => Markers(EmittedComment) = 1

\* C19: encoding an option never fails, and decoding the octets that
\* option.Bytes returned yields an option with the code and the value of the
\* encoded option, in both byte orders.
C19_RoundTrip ==
    /\ ~panicked
    /\ decoded.done => decoded.opt = option

\* C20: encoding an option never fails and yields 4 + len(value) octets rounded
\* up to a multiple of four, with len(value) in the length field and zero
\* octets as padding.
C20_EncodedLength ==
    /\ ~panicked
    /\ encoded.done =>
          /\ Len(encoded.bytes) = WireSize(Len(option.Value))
          /\ Uint16(byteOrder, GoSlice(encoded.bytes, 2, 4)) = Len(option.Value)
          /\ \A i \in (4 + Len(option.Value) + 1)..Len(encoded.bytes) :
                encoded.bytes[i] = 0

\* the cache holds the list of its last Set
HoldsList == tc.ts # << >>

\* the positions of the targets of the cached list with a name, and with a key
Named(name) == { i \in 1..Len(tc.ts) : tc.ts[i].Name = name }
Keyed(nodename, prefix, name) ==
    { i \in 1..Len(tc.ts) :
        /\ tc.ts[i].NodeName = nodename
        /\ tc.ts[i].Prefix = prefix
        /\ tc.ts[i].Name = name }

\* C21: Pod(x) reports not-found when no target or more than one target of the
\* list has the name x, or when the only target with the name x is not a pod.
C21_PodNotFound ==
    /\ last.op = "Pod"
    /\ HoldsList
    /\ \/ Cardinality(Named(last.name)) # 1
       \/ \E i \in Named(last.name) : tc.ts[i].Type # "pod"
    => last.res = NotFound

\* C22: when exactly one target of the list has the name x and it is a pod,
\* Pod(x) returns that target.
C22_PodFound ==
    last.op = "Pod" /\ HoldsList =>
        \A i \in Named(last.name) :
            (Named(last.name) = {i} /\ tc.ts[i].Type = "pod"
             => last.res = [t |-> tc.ts[i], ok |-> TRUE])

\* C23: OnNode(node, prefix, name) returns the target of the list with this
\* key when exactly one target has it, and reports not-found when no target
\* or more than one target has it.
C23_OnNode ==
    last.op = "OnNode" /\ HoldsList =>
        /\ \A i \in Keyed(last.nodename, last.prefix, last.name) :
              (Keyed(last.nodename, last.prefix, last.name) = {i}
               => last.res = [t |-> tc.ts[i], ok |-> TRUE])
        /\ (Cardinality(Keyed(last.nodename, last.prefix, last.name)) # 1
              => last.res = NotFound)

\* CompleteTarget was the last call, for a description that is not nil
Resolving == last.op = "CompleteTarget" /\ last.t # NoTarget

\* the description of the last call carries a capture service
Sufficient == Resolving /\ last.t.CaptureService # << >>

\* the description of the last call had to be looked up, and what the cache
\* holds for it
Incomplete == Resolving /\ last.t.CaptureService = << >>
Looked ==
    IF last.t.Type = "pod"
    THEN Pod(tc, last.t.Name)
    ELSE OnNode(tc, last.t.NodeName, last.t.Prefix, last.t.Name)

HasUnsafe(str) == \E i \in 1..Len(str) : str[i] \in {47, 63, 37}

\* C25: a description that carries a capture service is returned as the very
\* same object, without error.
C25_SufficientAsIs ==
    Sufficient => last.res = [t |-> last.t, err |-> "nil"]

\* C25, amended: a description that carries a capture service free of '/',
\* '?' and '%' is returned as the very same object, whatever the cache holds;
\* one whose capture service has such a character is rejected with the
\* routing error and no target.
C25_SufficientAsIsIfSafe ==
    Sufficient =>
        IF HasUnsafe(last.t.CaptureService)
        THEN last.res = [t |-> NoTarget, err |-> ErrRouting]
        ELSE last.res = [t |-> last.t, err |-> "nil"]

C25_Witness ==
    /\ Sufficient
    /\ HoldsList
    /\ last.res.err = "nil"
    /\ last.res.t.addr = ArgAddr

\* C26: a nil description gives the missing-target error; a description
\* without capture service is looked up with Pod(name) when its type is pod
\* and with OnNode(node, prefix, name) otherwise, a lookup that finds nothing
\* gives the non-existing-target error and no target, and a lookup that finds
\* a target never does; the cache is left as it was.
C26_Lookup ==
    [][last'.op = "CompleteTarget" =>
        /\ tc' = tc
        /\ last'.t = NoTarget =>
              last'.res = [t |-> NoTarget, err |-> ErrNoTarget]
        /\ last'.t # NoTarget =>
              last'.res.err # ErrNoTarget
        /\ last'.t # NoTarget /\ last'.t.CaptureService = << >> =>
              IF last'.t.Type = "pod"
              THEN IF Pod(tc, last'.t.Name).ok
                   THEN /\ last'.res.err # ErrNonExisting
                        /\ last'.res.err = "nil" =>
                              last'.res.t.Name = Pod(tc, last'.t.Name).t.Name
                   ELSE last'.res = [t |-> NoTarget, err |-> ErrNonExisting]
              ELSE IF OnNode(tc, last'.t.NodeName, last'.t.Prefix,
                             last'.t.Name).ok
                   THEN last'.res.err # ErrNonExisting
                   ELSE last'.res = [t |-> NoTarget, err |-> ErrNonExisting]
    ]_vars

\* a container looked up by its key is not found although a pod has its name
C26_Witness ==
    /\ Incomplete
    /\ last.t.Type # "pod"
    /\ Pod(tc, last.t.Name).ok
    /\ last.res = [t |-> NoTarget, err |-> ErrNonExisting]

\* C27: a description completed from the cache comes back as a copy of the
\* passed description: name, type, prefix and node name are the passed ones,
\* the capture service is the cached one, and the interfaces are those of the
\* capture options if there are any and the cached ones otherwise.
C27_CopyOfPassed ==
    Incomplete /\ last.res.err = "nil" =>
        /\ last.res.t.addr = CopyAddr
        /\ last.res.t.Name = last.t.Name
        /\ last.res.t.Type = last.t.Type
        /\ last.res.t.Prefix = last.t.Prefix
        /\ last.res.t.NodeName = last.t.NodeName
        /\ last.res.t.CaptureService = Looked.t.CaptureService
        /\ last.res.t.NetworkInterfaces =
              IF last.opts.Nifs # << >>
              THEN last.opts.Nifs
              ELSE Looked.t.NetworkInterfaces

\* C28: a target returned without error has a capture service.
C28_RoutingPresent ==
    Resolving /\ last.res.err = "nil" => last.res.t.CaptureService # << >>

\* C29: no target returned without error has '/', '?' or '%' in its capture
\* service, and a resolved capture service with such a character gives the
\* routing error and no target.
C29_UnsafeRouting ==
    /\ Resolving /\ last.res.err = "nil" =>
          ~HasUnsafe(last.res.t.CaptureService)
    /\ Sufficient /\ HasUnsafe(last.t.CaptureService) =>
          last.res = [t |-> NoTarget, err |-> ErrRouting]
    /\ Incomplete /\ Looked.ok /\ HasUnsafe(Looked.t.CaptureService) =>
          last.res = [t |-> NoTarget, err |-> ErrRouting]

\* the cached entry of a looked-up description has an unsafe capture service
C29_Witness ==
    /\ Incomplete
    /\ Looked.ok
    /\ HasUnsafe(Looked.t.CaptureService)
    /\ last.res.err = ErrRouting

\* the caches that a sequence of whole Set and Clear calls leaves
Whole(cache) ==
    \E l \in ThreadLists \cup { << >> } :
        /\ cache.index = IndexFrom(<< >>, l, 1)
        /\ cache.ts \in { l, << >> }

\* C24: a lookup that has read the cache has read the list and the complete
\* index of one Set (or the cache before any Set), at most cleared, and its
\* answer is the one this whole cache gives.
C24_Atomic ==
    \A t \in CacheThreads :
        th[t].pc = "unlock" /\ th[t].call.op \in Lookups =>
            /\ Whole(tc)
            /\ th[t].res = Answer(th[t].call, tc)

\* a lookup has found a pod while the other goroutine waits to set a list
C24_Witness ==
    \E t, u \in CacheThreads :
        /\ th[t].pc = "unlock"
        /\ th[t].call.op = "Pod"
        /\ th[t].res.ok
        /\ th[u].pc = "lock"
        /\ th[u].call.op = "Set"

\* C30: a Capture of a description without capture service that the cache
\* cannot resolve returns the resolution error and dials nothing.
C30_ResolveBeforeDial ==
    /\ last.op = "Capture"
    /\ last.t.CaptureService = << >>
    /\ CompleteTarget(last.t, last.opts, tc).err # "nil"
    => /\ last.dialed = NoTarget
       /\ last.err = CompleteTarget(last.t, last.opts, tc).err

\* C31: a Targets() whose discovery request fails returns the empty list and
\* leaves the list and the index of the cache as they were.
C31_FailedDiscovery ==
    [][\A response \in Responses :
          ~response.ok /\ IsEmpty(tc) /\ ClientTargets(response) =>
              /\ last'.res = << >>
              /\ tc' = tc
    ]_vars

\* a discovery has failed on a cleared cache that still has its index
C31_Witness ==
    /\ last.op = "Targets"
    /\ last.res = << >>
    /\ hc.discoveries = 2
    /\ tc.ts = << >>
    /\ tc.index # << >>

\* C32: Targets() on a non-empty cache returns the cached list, asks the
\* service nothing and leaves the cache alone; Targets() on an empty cache,
\* and a Capture that needs the discovery, ask the service once, and a
\* successful answer becomes the content of the cache.
C32_DiscoveryLifecycle ==
    [][/\ last'.op = "Targets" =>
            IF ~IsEmpty(tc)
            THEN /\ hc'.discoveries = hc.discoveries
                 /\ last'.res = tc.ts
                 /\ tc' = tc
            ELSE /\ hc'.discoveries = hc.discoveries + 1
                 /\ \/ tc' = tc /\ last'.res = << >>
                    \/ \E l \in ServiceLists :
                          /\ tc'.ts = OnHost(l)
                          /\ tc'.index = IndexFrom(<< >>, OnHost(l), 1)
                          /\ last'.res = OnHost(l)
       /\ last'.op = "Clear" => IsEmpty(tc')
       /\ last'.op = "Capture" =>
            hc'.discoveries =
                IF IsEmpty(tc) /\ Len(last'.t.NetworkInterfaces) = 0
                THEN hc.discoveries + 1
                ELSE hc.discoveries
    ]_vars

\* a second round-trip has filled the cache
C32_Witness ==
    /\ last.op = "Targets"
    /\ hc.discoveries = 2
    /\ last.res # << >>
    /\ tc.ts = last.res

\* the cache that Set(ts) makes of a new TargetCache
Fresh(ts) == [ts |-> ts, index |-> IndexFrom(<< >>, ts, 1), m |-> "free"]

\* C37: after Set(L), whatever was set before, and until the list is cleared,
\* Targets() is L, and every Pod and OnNode answer is the one a new cache
\* with L gives and, if it finds a target, finds one of L.
C37_SetWholesale ==
    last.op = "Set" \/ HoldsList =>
        /\ tc = Fresh(tc.ts)
        /\ \A name \in Names :
              /\ Pod(tc, name) = Pod(Fresh(tc.ts), name)
              /\ Pod(tc, name).ok =>
                    \E i \in 1..Len(tc.ts) : tc.ts[i] = Pod(tc, name).t
        /\ \A nodename \in NodeNames, prefix \in Prefixes, name \in Names :
              /\ OnNode(tc, nodename, prefix, name)
                    = OnNode(Fresh(tc.ts), nodename, prefix, name)
              /\ OnNode(tc, nodename, prefix, name).ok =>
                    \E i \in 1..Len(tc.ts) :
                        tc.ts[i] = OnNode(tc, nodename, prefix, name).t

\* a Set has replaced a list with a target named y by one without
C37_Witness ==
    /\ last.op = "Set"
    /\ "y" \in last.had
    /\ "y" \notin NamesOf(tc.ts)
    /\ tc.ts # << >>
    /\ Pod(tc, "y") = NotFound

\* C40: Clear() empties the list and leaves the index alone, and so does a
\* failed discovery after it: IsEmpty() is true, Targets() is empty, and Pod
\* and OnNode answer as they did before.
C40_ClearKeepsIndex ==
    [][(\/ last'.op = "Clear"
        \/ \E response \in Responses :
              ~response.ok /\ IsEmpty(tc) /\ ClientTargets(response)) =>
          /\ IsEmpty(tc')
          /\ Targets(tc') = << >>
          /\ tc'.index = tc.index
          /\ \A name \in Names : Pod(tc', name) = Pod(tc, name)
          /\ \A name \in Names : OnNode(tc', Str_hostn, "", name)
                                   = OnNode(tc, Str_hostn, "", name)
    ]_vars

\* Pod still finds a pod of the cleared list
C40_Witness ==
    /\ last.op = "Clear"
    /\ IsEmpty(tc)
    /\ Pod(tc, "x").ok

\* the steps that call the network or the sink: ReadMessage, WriteMessage,
\* Conn.Close and the Write of the sink
InIO(t) ==
    pc[t] \in {"read", "rd_send", "rd_connclose", "cl_send", "cl_force", "write"}

\* C33: a goroutine that is about to send a frame, close the transport, read
\* a frame or write to the sink holds neither ws.m nor the mutex of the
\* TargetCache.
C33_NoLockAcrossIO ==
    \A t \in Threads : InIO(t) => mu # t /\ tc.m # t

\* the relay loop has ended on an error of the sink other than os.ErrClosed
SinkFailed ==
    /\ pc["relay"] \in {"exit", "ended"}
    /\ rd["relay"].res.kind = "data"
    /\ ~sinkGone

\* C34: when the sink fails with an error other than os.ErrClosed, the relay
\* goroutine ends and closes done, the drain goroutine is never started, no
\* frame is read from the connection any more and the sink gets nothing more.
C34_SinkFailure ==
    [][SinkFailed =>
          /\ pc["drain"] = "off"
          /\ pc'["drain"] = "off"
          /\ pc'["relay"] \in {"exit", "ended"}
          /\ pc["relay"] = "ended" => doneFired
          /\ pc'["relay"] = "ended" => doneCloses' = 1
          /\ rd' = rd
          /\ Len(wire') >= Len(wire)
          /\ sinkData' = sinkData
    ]_vars

\* the relay goroutine has ended on a failed sink while a frame is in flight
C34_Witness ==
    /\ SinkFailed
    /\ pc["relay"] = "ended"
    /\ doneFired
    /\ wire # << >>

\* C39: when ws.closed is closed, ws.Closing is set and the transport has
\* been closed; ws.Closing, once set, stays set.
C39_ClosedImpliesClosing ==
    /\ [](closedFired => Closing /\ connClosed)
    /\ [][Closing => Closing']_vars

\* Close() has run into its timeout and closed the transport and ws.closed
C39_Witness ==
    /\ closedFired
    /\ Closing
    /\ connClosed
    /\ connClosers[1] \in Callers

\* the stream begins with the block type of a section header block, and the
\* block total length its first twelve octets declare
MagicOk == Len(input) >= 12 /\ GoSlice(input, 0, 4) = SHBMagic
Declared ==
    Uint32(IF GoSlice(input, 8, 12) = BOMBig THEN "big" ELSE "little",
           GoSlice(input, 4, 8))

\* C35: a stream that begins with the block type but declares another total
\* length than its block has is not withheld: once the whole stream has been
\* written, the editor holds nothing back and the sink has got octets.
C35_NotWithheld ==
    input \in OddBlocks /\ pos = Len(input) /\ ~panicked =>
        /\ pe.shb = << >>
        /\ sinkData # << >>

\* the editor has not yet got twelve octets, or it has got a good block type
\* and fewer octets than the declared length
StillBuffering(n) == n < 12 \/ (MagicOk /\ n < Declared)

\* C36: while the editor is still buffering the sink has got nothing; the
\* Write that hands the first octets to the sink is the one that completes
\* the declared block or shows the bad block type, and it leaves the editor
\* in pass-through; every Write that returns has taken all of its octets.
C36_BufferingEmitsNothing ==
    /\ [](StillBuffering(pos) => sinkData = << >>)
    /\ [][/\ sinkData = << >> /\ sinkData' # << >> =>
                /\ StillBuffering(pos)
                /\ ~StillBuffering(pos')
                /\ pe'.passThrough
          /\ ~panicked' => pos' > pos /\ Len(pe'.shb) + Len(sinkData') >= pos
       ]_vars

\* an editor that has gathered 12 octets and more of a good block, and waits
C36_Witness ==
    /\ input \in GoodBlocks
    /\ pos > 12
    /\ StillBuffering(pos)
    /\ pe.shbLen = Declared
    /\ sinkData = << >>

\* the editor as it was made, and what it hands to the sink when the whole
\* stream comes in one Write
Unused == NewStreamEditor(pe.container, pe.captureFilter, pe.noProm)
InOneWrite(newcap) == process(Unused, input, newcap)

\* C38: when the whole stream has been written, the octets the sink has got
\* are octets it can get when the stream comes in one Write, and a split
\* stream fails only if the unsplit one can fail.
C38_ChunkingIndependent ==
    /\ pos = Len(input) /\ ~panicked =>
          \E newcap \in AppendCaps(Unused, input) :
              /\ ~InOneWrite(newcap).panic
              /\ sinkData = InOneWrite(newcap).out
    /\ panicked =>
          \E newcap \in AppendCaps(Unused, input) : InOneWrite(newcap).panic

====
